---- MODULE Spec2Model ----
(***************************************************************************)
(* Licensing / activation subsystem of the POS backend                     *)
(* (pos-backend/services/activationService.js and its routes in            *)
(* pos-backend/index.js).                                                  *)
(*                                                                         *)
(* Serial numbers are sequences of one-character strings.  SQL NULL and JS *)
(* null are the values NullSerial, NullHw, NullTime and "null"; the string *)
(* 'unlimited' returned for `remaining` is the value Unlimited.            *)
(* Time is counted in units of 30 days (the grace period of a temporary    *)
(* activation is GraceTicks = 1 unit).                                     *)
(***************************************************************************)
EXTENDS Integers, Sequences, FiniteSets, TLC

(* ------------------------------ bounds --------------------------------- *)
NumProcs == 2          \* concurrent HTTP requests
MaxIncCalls == 3       \* increment calls per behaviour (concurrent specs)
MaxSeqCalls == 100     \* increment calls of the sequential client
MaxActCalls == 2       \* activate requests per behaviour
MaxTime == 1           \* clock values 0..MaxTime
MaxQueue == 2          \* validation_queue rows plus inserts in flight
MaxSales == 1          \* rows of the sales table
MaxEdits == 1          \* characters by which a tested serial is off a submitted one

(* ------------------------- program constants --------------------------- *)
maxTrialTransactions == 99
GraceTicks == 1
CounterId == 1

Procs == 1..NumProcs

NullSerial == <<"NULL">>
NullTime == -1
Unlimited == -1
NullHw == [kind |-> "null", stamp |-> NullTime]

(* ------------------------------ serials -------------------------------- *)
SN_PRELOADED == <<"D","M","P","O","S","-","2","0","2","4","-","0","0","0","0","0","1","-","4","0","0","5">>
SN_PRELOADED2 == <<"D","M","P","O","S","-","2","0","2","4","-","0","0","0","0","0","2","-","5","3","D","4">>
SN_UNKNOWN == <<"D","M","P","O","S","-","2","0","2","5","-","A","B","C","1","2","3","-","8","D","8","4">>
SN_LOWER == <<"d","m","p","o","s","-","2","0","2","4","-","0","0","0","0","0","1","-","1","1","F","1">>
SN_SHORT == <<"D","M","P","O","S","-","2","4","-","0","0","0","0","0","1","-","0","0","0","0">>
SN_EMPTY == <<>>

\* the serials a client may submit
Serials == {SN_PRELOADED, SN_PRELOADED2, SN_UNKNOWN, SN_LOWER, SN_SHORT, SN_EMPTY}

Digits == {"0","1","2","3","4","5","6","7","8","9"}
UpperLetters == {"A","B","C","D","E","F","G","H","I","J","K","L","M",
                 "N","O","P","Q","R","S","T","U","V","W","X","Y","Z"}

AllIn(s, from, to, set) == \A i \in from..to : s[i] \in set

\* isValidSNFormat, but the pattern has no end anchor
isValidSNFormat_Unanchored(serialNumber) ==
    /\ Len(serialNumber) >= 22
    /\ SubSeq(serialNumber, 1, 6) = <<"D","M","P","O","S","-">>
    /\ AllIn(serialNumber, 7, 10, Digits)
    /\ serialNumber[11] = "-"
    /\ AllIn(serialNumber, 12, 17, UpperLetters \cup Digits)
    /\ serialNumber[18] = "-"
    /\ AllIn(serialNumber, 19, 22, UpperLetters \cup Digits)

\* /^DMPOS-\d{4}-[A-Z0-9]{6}-[A-Z0-9]{4}$/.test(serialNumber)
isValidSNFormat(serialNumber) ==
    /\ Len(serialNumber) = 22
    /\ SubSeq(serialNumber, 1, 6) = <<"D","M","P","O","S","-">>
    /\ AllIn(serialNumber, 7, 10, Digits)
    /\ serialNumber[11] = "-"
    /\ AllIn(serialNumber, 12, 17, UpperLetters \cup Digits)
    /\ serialNumber[18] = "-"
    /\ AllIn(serialNumber, 19, 22, UpperLetters \cup Digits)

\* String.prototype.split('-')
RECURSIVE SplitFrom(_, _, _)
SplitFrom(s, i, cur) ==
    IF i > Len(s) THEN <<cur>>
    ELSE IF s[i] = "-" THEN <<cur>> \o SplitFrom(s, i + 1, <<>>)
    ELSE SplitFrom(s, i + 1, Append(cur, s[i]))

Split(s) == SplitFrom(s, 1, <<>>)

\* String.prototype.substring(0, n)
Substring0(s, n) == SubSeq(s, 1, IF n < Len(s) THEN n ELSE Len(s))

UpperOf(c) ==
    CASE c = "a" -> "A" [] c = "b" -> "B" [] c = "c" -> "C"
      [] c = "d" -> "D" [] c = "e" -> "E" [] c = "f" -> "F"
      [] OTHER -> c

\* String.prototype.toUpperCase() on hex digits
ToUpperCase(s) == [i \in 1..Len(s) |-> UpperOf(s[i])]

\* crypto.createHash('md5').update(baseString).digest('hex'), tabulated for
\* the base strings of Serials
Md5Hex(baseString) ==
    CASE baseString = <<"D","M","P","O","S","-","2","0","2","4","-","0","0","0","0","0","1","-">> ->
           <<"4","0","0","5","f","e","3","3","b","e","3","9","9","9","e","c","4","0","9","8","a","5","c","e","5","2","d","6","a","7","a","0">>
      [] baseString = <<"D","M","P","O","S","-","2","0","2","4","-","0","0","0","0","0","2","-">> ->
           <<"5","5","c","a","a","5","8","8","e","5","4","5","3","2","8","5","b","5","8","7","e","f","8","e","7","b","3","2","a","d","3","6">>
      [] baseString = <<"D","M","P","O","S","-","2","0","2","5","-","A","B","C","1","2","3","-">> ->
           <<"8","d","8","4","c","5","b","b","4","4","4","1","2","5","a","d","c","4","f","5","6","6","1","8","3","1","3","d","2","1","3","2">>
      [] baseString = <<"D","M","P","O","S","-","2","4","-","0","0","0","0","0","1","-">> ->
           <<"e","0","6","0","d","3","5","7","c","5","0","6","8","4","a","1","9","b","a","5","d","5","9","9","d","c","f","3","e","b","8","c">>
      [] baseString = <<"d","m","p","o","s","-","2","0","2","4","-","0","0","0","0","0","1","-">> ->
           <<"1","1","f","1","d","d","e","3","8","b","f","7","5","e","d","2","c","2","2","2","b","5","a","9","4","d","9","8","8","a","9","d">>

\* isValidCRC, but the digest prefix is compared as digest('hex') gives it
isValidCRC_NoUpperCase(serialNumber) ==
    LET parts == Split(serialNumber) IN
    IF Len(parts) # 4 THEN FALSE
    ELSE LET baseString == parts[1] \o <<"-">> \o parts[2] \o <<"-">> \o parts[3] \o <<"-">>
             expectedCRC == Substring0(Md5Hex(baseString), 4)
         IN parts[4] = expectedCRC

isValidCRC(serialNumber) ==
    LET parts == Split(serialNumber) IN
    IF Len(parts) # 4 THEN FALSE
    ELSE LET baseString == parts[1] \o <<"-">> \o parts[2] \o <<"-">> \o parts[3] \o <<"-">>
             expectedCRC == ToUpperCase(Substring0(Md5Hex(baseString), 4))
         IN parts[4] = expectedCRC

(* ------------------------------- state --------------------------------- *)
VARIABLES
    transaction_counter,   \* table transaction_counter: id -> row
    preloaded_sns,         \* table preloaded_sns: serial_number -> row
    validation_queue,      \* table validation_queue: sequence of rows, by id
    queueInserts,          \* INSERTs into validation_queue issued, not yet run
    now,                   \* wall clock
    sales,                 \* rows of the MySQL transactions table
    pc,                    \* per request: position in its handler
    loc,                   \* per request: local variables of the handler
    result,                \* the response sent by the step just taken, if any
    startCount,            \* history: total_transactions at start-up or last reset
    nSucc,                 \* history: incrementTransaction calls resolved since then
    nFail,                 \* history: incrementTransaction calls rejected since then
    nAct                   \* history: activate requests received

vars == <<transaction_counter, preloaded_sns, validation_queue, queueInserts,
          now, sales, pc, loc, result, startCount, nSucc, nFail, nAct>>

storeVars == <<transaction_counter, preloaded_sns, validation_queue, queueInserts>>
histVars == <<startCount, nSucc, nFail, nAct>>

row == transaction_counter[CounterId]

\* INSERT OR IGNORE INTO transaction_counter (id, total_transactions) VALUES (1, 0)
DefaultRow ==
    [total_transactions |-> 0,
     license_status |-> "trial",
     serial_number |-> NullSerial,
     hardware_id |-> NullHw,
     activation_date |-> NullTime,
     last_validation |-> NullTime,
     temporary_until |-> NullTime]

\* test serials initDB inserts: the first two of its five
testSNs == {SN_PRELOADED, SN_PRELOADED2}

PreloadedRows ==
    [sn \in testSNs |-> [valid |-> TRUE, max_installations |-> 3,
                         license_type |-> "standard"]]

\* what validateOnline / validateOffline hand back to activateLicense
NoValidation ==
    [success |-> FALSE, code |-> "null", type |-> "null", temporary |-> FALSE,
     expires |-> NullTime, message |-> "null", installations |-> "none",
     source |-> "none"]

\* what a fetch to the server can produce: a rejected fetch (unreachable,
\* timeout), a status, a body that json() cannot parse, or a parsed body
Response(transport, status, bodyOk, valid, reason, existing, canActivate, installations, type, success, message) ==
    [transport |-> transport, status |-> status, bodyOk |-> bodyOk,
     valid |-> valid, reason |-> reason, existing |-> existing,
     canActivate |-> canActivate, installations |-> installations,
     type |-> type, success |-> success, message |-> message]

Body(valid, reason, existing, canActivate, installations, type, success, message) ==
    Response("ok", 200, TRUE, valid, reason, existing, canActivate,
             installations, type, success, message)

NoBody(transport, status, bodyOk) ==
    Response(transport, status, bodyOk, FALSE, "null", FALSE, FALSE,
             "none", "null", FALSE, "null")

\* no request has been answered yet
NoAnswer == NoBody("none", 0, FALSE)

\* the JSON body of a request to the server (computerInfo is passed through)
Payload(serialNumber, hardwareId) ==
    [serialNumber |-> serialNumber, hardwareId |-> hardwareId]

NoPayload == Payload(NullSerial, NullHw)

\* locals of a handler in flight; the fields after validationResult record
\* what the call has done so far
NoLoc ==
    [op |-> "none", currentCount |-> 0, newCount |-> 0,
     serialNumber |-> NullSerial, hardwareId |-> NullHw,
     validationResult |-> NoValidation,
     fingerprints |-> 0, validateRequests |-> 0, activateRequests |-> 0,
     validatePayload |-> NoPayload, activatePayload |-> NoPayload,
     validateAnswer |-> NoAnswer, activateAnswer |-> NoAnswer,
     offlineLookups |-> 0, queued |-> 0, storeWrites |-> 0]

NoResult == [op |-> "none", settled |-> "none"]

(* --------------------------- incrementTransaction ---------------------- *)
IncInFlight == {p \in Procs : pc[p] \in {"inc_get", "inc_run_activated", "inc_run_trial"}}
IncCallsBegun == nSucc + nFail + Cardinality(IncInFlight)

\* WarningLevel, but with < at every threshold
WarningLevel_Strict(remaining) ==
    IF remaining < 4 THEN "critical"
    ELSE IF remaining < 9 THEN "high"
    ELSE IF remaining < 19 THEN "medium"
    ELSE "null"

\* the graduated warning of a trial increment
WarningLevel(remaining) ==
    IF remaining <= 4 THEN "critical"
    ELSE IF remaining <= 9 THEN "high"
    ELSE IF remaining <= 19 THEN "medium"
    ELSE "null"

IncMessage(remaining) ==
    IF remaining = 0 THEN "Trial limit reached - activation required"
    ELSE IF remaining <= 4 THEN "Only n transactions left!"
    ELSE IF remaining <= 19 THEN "n transactions remaining"
    ELSE "null"

IncResolved(p, total, remaining, warning, status, message) ==
    [op |-> "increment", proc |-> p, settled |-> "resolved", success |-> TRUE,
     total |-> total, remaining |-> remaining, warning |-> warning,
     status |-> status, message |-> message, http |-> 200, error |-> "null"]

\* the catch block of POST /api/activation/increment-transaction
IncrementErrorKind(message) ==
    IF message = "TRIAL_LIMIT_REACHED" THEN "TRIAL_LIMIT_REACHED"
    ELSE "Failed to increment transaction counter"

IncRejected(p, message) ==
    [op |-> "increment", proc |-> p, settled |-> "rejected", success |-> FALSE,
     total |-> 0, remaining |-> 0, warning |-> "null",
     status |-> "null", message |-> message,
     http |-> IF message = "TRIAL_LIMIT_REACHED" THEN 403 ELSE 500,
     error |-> IncrementErrorKind(message)]

\* the call opens a connection and issues the SELECT
IncrementBegin(p, maxCalls) ==
    /\ pc[p] = "idle"
    /\ IncCallsBegun < maxCalls
    /\ pc' = [pc EXCEPT ![p] = "inc_get"]
    /\ loc' = [loc EXCEPT ![p] = [NoLoc EXCEPT !.op = "increment"]]
    /\ result' = NoResult
    /\ UNCHANGED <<storeVars, now, sales, histVars>>

\* IncrementGet, but the rejected call has already counted itself
IncrementGet_CountsRejected(p) ==
    /\ pc[p] = "inc_get"
    /\ LET currentCount == row.total_transactions
           licenseStatus == row.license_status
       IN IF licenseStatus = "activated"
          THEN /\ pc' = [pc EXCEPT ![p] = "inc_run_activated"]
               /\ loc' = [loc EXCEPT ![p].currentCount = currentCount]
               /\ result' = NoResult
               /\ UNCHANGED <<nFail, transaction_counter>>
          ELSE IF currentCount >= maxTrialTransactions
          THEN /\ pc' = [pc EXCEPT ![p] = "idle"]
               /\ loc' = [loc EXCEPT ![p] = NoLoc]
               /\ result' = IncRejected(p, "TRIAL_LIMIT_REACHED")
               /\ nFail' = nFail + 1
               /\ transaction_counter' =
                    [transaction_counter EXCEPT ![CounterId].total_transactions = @ + 1]
          ELSE /\ pc' = [pc EXCEPT ![p] = "inc_run_trial"]
               /\ loc' = [loc EXCEPT ![p].currentCount = currentCount,
                                     ![p].newCount = currentCount + 1]
               /\ result' = NoResult
               /\ UNCHANGED <<nFail, transaction_counter>>
    /\ UNCHANGED <<preloaded_sns, validation_queue, queueInserts, now, sales,
                   startCount, nSucc, nAct>>

\* IncrementGet, but the trial limit is checked before the licence status
IncrementGet_LimitBeforeStatus(p) ==
    /\ pc[p] = "inc_get"
    /\ LET currentCount == row.total_transactions
           licenseStatus == row.license_status
       IN IF currentCount >= maxTrialTransactions
          THEN /\ pc' = [pc EXCEPT ![p] = "idle"]
               /\ loc' = [loc EXCEPT ![p] = NoLoc]
               /\ result' = IncRejected(p, "TRIAL_LIMIT_REACHED")
               /\ nFail' = nFail + 1
          ELSE IF licenseStatus = "activated"
          THEN /\ pc' = [pc EXCEPT ![p] = "inc_run_activated"]
               /\ loc' = [loc EXCEPT ![p].currentCount = currentCount]
               /\ result' = NoResult
               /\ UNCHANGED nFail
          ELSE /\ pc' = [pc EXCEPT ![p] = "inc_run_trial"]
               /\ loc' = [loc EXCEPT ![p].currentCount = currentCount,
                                     ![p].newCount = currentCount + 1]
               /\ result' = NoResult
               /\ UNCHANGED nFail
    /\ UNCHANGED <<storeVars, now, sales, startCount, nSucc, nAct>>

\* IncrementGet, but the limit test is > instead of >=
IncrementGet_LimitOffByOne(p) ==
    /\ pc[p] = "inc_get"
    /\ LET currentCount == row.total_transactions
           licenseStatus == row.license_status
       IN IF licenseStatus = "activated"
          THEN /\ pc' = [pc EXCEPT ![p] = "inc_run_activated"]
               /\ loc' = [loc EXCEPT ![p].currentCount = currentCount]
               /\ result' = NoResult
               /\ UNCHANGED nFail
          ELSE IF currentCount > maxTrialTransactions
          THEN /\ pc' = [pc EXCEPT ![p] = "idle"]
               /\ loc' = [loc EXCEPT ![p] = NoLoc]
               /\ result' = IncRejected(p, "TRIAL_LIMIT_REACHED")
               /\ nFail' = nFail + 1
          ELSE /\ pc' = [pc EXCEPT ![p] = "inc_run_trial"]
               /\ loc' = [loc EXCEPT ![p].currentCount = currentCount,
                                     ![p].newCount = currentCount + 1]
               /\ result' = NoResult
               /\ UNCHANGED nFail
    /\ UNCHANGED <<storeVars, now, sales, startCount, nSucc, nAct>>

\* IncrementGet, but an activation whose grace period has run out counts as
\* a trial
IncrementGet_ExpiryRevokes(p) ==
    /\ pc[p] = "inc_get"
    /\ LET currentCount == row.total_transactions
           expired == row.temporary_until # NullTime /\ row.temporary_until <= now
           licenseStatus == IF expired THEN "trial" ELSE row.license_status
       IN IF licenseStatus = "activated"
          THEN /\ pc' = [pc EXCEPT ![p] = "inc_run_activated"]
               /\ loc' = [loc EXCEPT ![p].currentCount = currentCount]
               /\ result' = NoResult
               /\ UNCHANGED nFail
          ELSE IF currentCount >= maxTrialTransactions
          THEN /\ pc' = [pc EXCEPT ![p] = "idle"]
               /\ loc' = [loc EXCEPT ![p] = NoLoc]
               /\ result' = IncRejected(p, "TRIAL_LIMIT_REACHED")
               /\ nFail' = nFail + 1
          ELSE /\ pc' = [pc EXCEPT ![p] = "inc_run_trial"]
               /\ loc' = [loc EXCEPT ![p].currentCount = currentCount,
                                     ![p].newCount = currentCount + 1]
               /\ result' = NoResult
               /\ UNCHANGED nFail
    /\ UNCHANGED <<storeVars, now, sales, startCount, nSucc, nAct>>

\* the SELECT runs and its callback decides: reject at the limit, or issue
\* one of the two UPDATE statements
IncrementGet(p) ==
    /\ pc[p] = "inc_get"
    /\ LET currentCount == row.total_transactions
           licenseStatus == row.license_status
       IN IF licenseStatus = "activated"
          THEN /\ pc' = [pc EXCEPT ![p] = "inc_run_activated"]
               /\ loc' = [loc EXCEPT ![p].currentCount = currentCount]
               /\ result' = NoResult
               /\ UNCHANGED nFail
          ELSE IF currentCount >= maxTrialTransactions
          THEN /\ pc' = [pc EXCEPT ![p] = "idle"]
               /\ loc' = [loc EXCEPT ![p] = NoLoc]
               /\ result' = IncRejected(p, "TRIAL_LIMIT_REACHED")
               /\ nFail' = nFail + 1
          ELSE /\ pc' = [pc EXCEPT ![p] = "inc_run_trial"]
               /\ loc' = [loc EXCEPT ![p].currentCount = currentCount,
                                     ![p].newCount = currentCount + 1]
               /\ result' = NoResult
               /\ UNCHANGED nFail
    /\ UNCHANGED <<storeVars, now, sales, startCount, nSucc, nAct>>

\* UPDATE ... SET total_transactions = total_transactions + 1
IncrementRunActivated(p) ==
    /\ pc[p] = "inc_run_activated"
    /\ transaction_counter' =
         [transaction_counter EXCEPT ![CounterId].total_transactions = @ + 1]
    /\ pc' = [pc EXCEPT ![p] = "idle"]
    /\ loc' = [loc EXCEPT ![p] = NoLoc]
    /\ result' = IncResolved(p, loc[p].currentCount + 1, Unlimited, "null",
                             "activated", "null")
    /\ nSucc' = nSucc + 1
    /\ UNCHANGED <<preloaded_sns, validation_queue, queueInserts, now, sales,
                   startCount, nFail, nAct>>

\* UPDATE ... SET total_transactions = ? with [newCount]
IncrementRunTrial(p) ==
    /\ pc[p] = "inc_run_trial"
    /\ transaction_counter' =
         [transaction_counter EXCEPT ![CounterId].total_transactions = loc[p].newCount]
    /\ pc' = [pc EXCEPT ![p] = "idle"]
    /\ loc' = [loc EXCEPT ![p] = NoLoc]
    /\ LET remaining == maxTrialTransactions - loc[p].newCount
       IN result' = IncResolved(p, loc[p].newCount, remaining, WarningLevel(remaining),
                                "trial", IncMessage(remaining))
    /\ nSucc' = nSucc + 1
    /\ UNCHANGED <<preloaded_sns, validation_queue, queueInserts, now, sales,
                   startCount, nFail, nAct>>

(* ------------------------ hardware fingerprint ------------------------- *)
\* createFlexibleFingerprint: digests of the machine's components only
createFlexibleFingerprint == [kind |-> "flexible", stamp |-> NullTime]

\* createBasicFingerprint: the digest covers Date.now()
createBasicFingerprint(t) == [kind |-> "basic", stamp |-> t]

\* gatherOk is FALSE when gatherHardwareInfo throws
generateHardwareFingerprint(gatherOk, t) ==
    IF gatherOk THEN createFlexibleFingerprint ELSE createBasicFingerprint(t)

(* -------------------------- licensing server --------------------------- *)
ValidateResponses ==
    { NoBody("unreachable", 0, FALSE),
      NoBody("timeout", 0, FALSE),
      NoBody("ok", 500, TRUE),
      NoBody("ok", 200, FALSE),
      Body(FALSE, "MAX_INSTALLATIONS_REACHED", FALSE, FALSE, "list", "null", FALSE, "null"),
      Body(FALSE, "MAX_INSTALLATIONS_REACHED", FALSE, FALSE, "none", "null", FALSE, "null"),
      Body(FALSE, "SN_NOT_FOUND", FALSE, FALSE, "none", "null", FALSE, "null"),
      Body(FALSE, "null", FALSE, FALSE, "none", "null", FALSE, "null"),
      Body(TRUE, "null", TRUE, FALSE, "none", "pro", FALSE, "null"),
      Body(TRUE, "null", TRUE, TRUE, "none", "null", FALSE, "null"),
      Body(TRUE, "null", FALSE, TRUE, "none", "null", FALSE, "null"),
      Body(TRUE, "null", FALSE, FALSE, "none", "pro", FALSE, "null") }

ActivateResponses ==
    { NoBody("unreachable", 0, FALSE),
      NoBody("timeout", 0, FALSE),
      NoBody("ok", 409, TRUE),
      NoBody("ok", 500, TRUE),
      NoBody("ok", 200, FALSE),
      Body(FALSE, "null", FALSE, FALSE, "none", "null", TRUE, "null"),
      Body(FALSE, "null", FALSE, FALSE, "none", "null", FALSE, "null") }

ResponseOk(resp) == resp.transport = "ok" /\ resp.status \in 200..299

\* Throws, but only a rejected fetch counts as a failure
Throws_NetworkOnly(resp) == resp.transport # "ok"

\* Throws, but a body with valid=false counts as a failed request too
Throws_RefusalThrown(resp) ==
    resp.transport # "ok" \/ ~ResponseOk(resp) \/ ~resp.bodyOk \/ ~resp.valid

\* fetch rejected, !res.ok, or res.json() rejected
Throws(resp) == resp.transport # "ok" \/ ~ResponseOk(resp) \/ ~resp.bodyOk

\* ActivateThrows, but a 409 is thrown like any other status outside 2xx
ActivateThrows_ConflictThrown(resp) ==
    \/ resp.transport # "ok"
    \/ ~ResponseOk(resp)
    \/ ~resp.bodyOk

\* the activate request: a 409 is answered, not thrown
ActivateThrows(resp) ==
    \/ resp.transport # "ok"
    \/ (~ResponseOk(resp) /\ resp.status # 409)
    \/ (ResponseOk(resp) /\ ~resp.bodyOk)

OrElse(value, default) == IF value = "null" THEN default ELSE value

Validation(success, code, type, temporary, expires, message, installations, source) ==
    [success |-> success, code |-> code, type |-> type, temporary |-> temporary,
     expires |-> expires, message |-> message, installations |-> installations,
     source |-> source]

\* OnValidateBody, but canActivate is looked at before existing
OnValidateBody_CanActivateFirst(validate) ==
    IF ~validate.valid THEN
      IF validate.reason = "MAX_INSTALLATIONS_REACHED"
      THEN Validation(FALSE, "MAX_INSTALLATIONS_REACHED", "null", FALSE, NullTime,
                      "Maximum installations reached",
                      IF validate.installations = "none" THEN "empty"
                      ELSE validate.installations, "online")
      ELSE Validation(FALSE, OrElse(validate.reason, "SN_NOT_VALID"), "null", FALSE,
                      NullTime, OrElse(validate.reason, "Serial number not valid"),
                      "none", "online")
    ELSE IF validate.canActivate
      THEN Validation(FALSE, "activate", "null", FALSE, NullTime, "null", "none", "online")
    ELSE IF validate.existing
      THEN Validation(TRUE, "null", OrElse(validate.type, "standard"), FALSE, NullTime,
                      OrElse(validate.message, "Already activated on this hardware"),
                      "none", "online")
    ELSE Validation(TRUE, "null", OrElse(validate.type, "standard"), FALSE, NullTime,
                    "Validated online successfully", "none", "online")

\* validateOnline on a parsed validate body, up to the activate request;
\* "activate" stands for: the second request is sent
OnValidateBody(validate) ==
    IF ~validate.valid THEN
      IF validate.reason = "MAX_INSTALLATIONS_REACHED"
      THEN Validation(FALSE, "MAX_INSTALLATIONS_REACHED", "null", FALSE, NullTime,
                      "Maximum installations reached",
                      IF validate.installations = "none" THEN "empty"
                      ELSE validate.installations, "online")
      ELSE Validation(FALSE, OrElse(validate.reason, "SN_NOT_VALID"), "null", FALSE,
                      NullTime, OrElse(validate.reason, "Serial number not valid"),
                      "none", "online")
    ELSE IF validate.existing
      THEN Validation(TRUE, "null", OrElse(validate.type, "standard"), FALSE, NullTime,
                      OrElse(validate.message, "Already activated on this hardware"),
                      "none", "online")
    ELSE IF validate.canActivate
      THEN Validation(FALSE, "activate", "null", FALSE, NullTime, "null", "none", "online")
    ELSE Validation(TRUE, "null", OrElse(validate.type, "standard"), FALSE, NullTime,
                    "Validated online successfully", "none", "online")

\* OnActivateResponse, but a 409 is an ordinary refusal
OnActivateResponse_ConflictGeneric(resp) ==
    IF ~ResponseOk(resp)
    THEN Validation(FALSE, "ACTIVATE_FAILED", "null", FALSE, NullTime,
                    "Activation failed on server", "none", "online")
    ELSE IF resp.success
    THEN Validation(TRUE, "null", "standard", FALSE, NullTime,
                    OrElse(resp.message, "Activated successfully"), "none", "online")
    ELSE Validation(FALSE, "ACTIVATE_FAILED", "null", FALSE, NullTime,
                    OrElse(resp.message, "Activation failed on server"), "none", "online")

\* validateOnline on the answer to the activate request (not thrown)
OnActivateResponse(resp) ==
    IF ~ResponseOk(resp)
    THEN Validation(FALSE, "MAX_INSTALLATIONS_REACHED", "null", FALSE, NullTime,
                    "Maximum installations reached", "none", "online")
    ELSE IF resp.success
    THEN Validation(TRUE, "null", "standard", FALSE, NullTime,
                    OrElse(resp.message, "Activated successfully"), "none", "online")
    ELSE Validation(FALSE, "ACTIVATE_FAILED", "null", FALSE, NullTime,
                    OrElse(resp.message, "Activation failed on server"), "none", "online")

(* ------------------------ POST /api/activation/activate ---------------- *)
\* what the call did before it settled
Did(l) ==
    [fingerprints |-> l.fingerprints, validateRequests |-> l.validateRequests,
     activateRequests |-> l.activateRequests,
     validatePayload |-> l.validatePayload, activatePayload |-> l.activatePayload,
     validateAnswer |-> l.validateAnswer, activateAnswer |-> l.activateAnswer,
     offlineLookups |-> l.offlineLookups, queued |-> l.queued,
     storeWrites |-> l.storeWrites]

ActResolved(p, l, v) ==
    [op |-> "activate", proc |-> p, settled |-> "resolved", success |-> TRUE,
     serialNumber |-> l.serialNumber, hardwareId |-> l.hardwareId,
     type |-> OrElse(v.type, "standard"), temporary |-> v.temporary,
     expires |-> v.expires, message |-> OrElse(v.message, "Activation successful"),
     code |-> "null", installations |-> "none", source |-> v.source,
     http |-> 200, error |-> "null", did |-> Did(l)]

\* error.message.includes(needle), for the messages that occur
MessageIncludes(message, needle) == message = needle

\* the catch block of the route
ActivateErrorKind(message, code) ==
    IF code = "MAX_INSTALLATIONS_REACHED" THEN "MAX_INSTALLATIONS_REACHED"
    ELSE IF MessageIncludes(message, "Invalid serial number format") THEN "INVALID_FORMAT"
    ELSE IF MessageIncludes(message, "Invalid serial number checksum") THEN "INVALID_CHECKSUM"
    ELSE IF MessageIncludes(message, "Serial number not valid") THEN "SN_NOT_FOUND"
    ELSE "ACTIVATION_FAILED"

ActRejected(p, l, message, code, installations, source) ==
    [op |-> "activate", proc |-> p, settled |-> "rejected", success |-> FALSE,
     serialNumber |-> l.serialNumber, hardwareId |-> NullHw,
     type |-> "null", temporary |-> FALSE, expires |-> NullTime,
     message |-> message, code |-> code, installations |-> installations,
     source |-> source,
     http |-> IF code = "MAX_INSTALLATIONS_REACHED" THEN 409 ELSE 400,
     error |-> ActivateErrorKind(message, code), did |-> Did(l)]

\* the route answers without calling the service
ActMissingSerial(p, l) ==
    [op |-> "activate", proc |-> p, settled |-> "not_called", success |-> FALSE,
     serialNumber |-> l.serialNumber, hardwareId |-> NullHw,
     type |-> "null", temporary |-> FALSE, expires |-> NullTime,
     message |-> "null", code |-> "null", installations |-> "none",
     source |-> "none", http |-> 400, error |-> "MISSING_SERIAL_NUMBER",
     did |-> Did(l)]

\* activateLicense settles on a validation result that is not a success
RejectValidation(p, l, v) ==
    IF v.code = "MAX_INSTALLATIONS_REACHED"
    THEN ActRejected(p, l, OrElse(v.message, "Maximum installations reached"),
                     "MAX_INSTALLATIONS_REACHED",
                     IF v.installations = "none" THEN "empty" ELSE v.installations,
                     v.source)
    ELSE ActRejected(p, l, OrElse(v.message, "Activation failed"),
                     "null", "none", v.source)

\* the request ends: its locals are gone and its response is sent
Respond(p, response) ==
    /\ pc' = [pc EXCEPT ![p] = "idle"]
    /\ loc' = [loc EXCEPT ![p] = NoLoc]
    /\ result' = response

\* the request goes on at position at with locals l
Continue(p, at, l) ==
    /\ pc' = [pc EXCEPT ![p] = at]
    /\ loc' = [loc EXCEPT ![p] = l]
    /\ result' = NoResult

\* ActivateBegin, but without the format check
ActivateBegin_NoFormatCheck(p, serialNumber) ==
    /\ pc[p] = "idle"
    /\ nAct < MaxActCalls
    /\ LET l == [NoLoc EXCEPT !.op = "activate", !.serialNumber = serialNumber] IN
       IF serialNumber = SN_EMPTY
       THEN Respond(p, ActMissingSerial(p, l))
       ELSE IF ~isValidCRC(serialNumber)
       THEN Respond(p, ActRejected(p, l, "Invalid serial number checksum", "null", "none", "none"))
       ELSE Continue(p, "act_fingerprint", l)
    /\ nAct' = nAct + 1
    /\ UNCHANGED <<storeVars, now, sales, startCount, nSucc, nFail>>

\* ActivateBegin, but with the checksum check before the format check
ActivateBegin_ChecksumFirst(p, serialNumber) ==
    /\ pc[p] = "idle"
    /\ nAct < MaxActCalls
    /\ LET l == [NoLoc EXCEPT !.op = "activate", !.serialNumber = serialNumber] IN
       IF serialNumber = SN_EMPTY
       THEN Respond(p, ActMissingSerial(p, l))
       ELSE IF ~isValidCRC(serialNumber)
       THEN Respond(p, ActRejected(p, l, "Invalid serial number checksum", "null", "none", "none"))
       ELSE IF ~isValidSNFormat(serialNumber)
       THEN Respond(p, ActRejected(p, l, "Invalid serial number format", "null", "none", "none"))
       ELSE Continue(p, "act_fingerprint", l)
    /\ nAct' = nAct + 1
    /\ UNCHANGED <<storeVars, now, sales, startCount, nSucc, nFail>>

\* the route and the synchronous head of activateLicense: the two checks,
\* then the call of generateHardwareFingerprint
ActivateBegin(p, serialNumber) ==
    /\ pc[p] = "idle"
    /\ nAct < MaxActCalls
    /\ LET l == [NoLoc EXCEPT !.op = "activate", !.serialNumber = serialNumber] IN
       IF serialNumber = SN_EMPTY
       THEN Respond(p, ActMissingSerial(p, l))
       ELSE IF ~isValidSNFormat(serialNumber)
       THEN Respond(p, ActRejected(p, l, "Invalid serial number format", "null", "none", "none"))
       ELSE IF ~isValidCRC(serialNumber)
       THEN Respond(p, ActRejected(p, l, "Invalid serial number checksum", "null", "none", "none"))
       ELSE Continue(p, "act_fingerprint", l)
    /\ nAct' = nAct + 1
    /\ UNCHANGED <<storeVars, now, sales, startCount, nSucc, nFail>>

\* generateHardwareFingerprint settles; validateOnline sends the validate request
ActivateFingerprint(p) ==
    /\ pc[p] = "act_fingerprint"
    /\ \E gatherOk \in BOOLEAN :
         LET hardwareId == generateHardwareFingerprint(gatherOk, now) IN
         Continue(p, "act_validate",
                  [loc[p] EXCEPT !.hardwareId = hardwareId,
                                 !.fingerprints = @ + 1,
                                 !.validateRequests = @ + 1,
                                 !.validatePayload =
                                    Payload(loc[p].serialNumber, hardwareId)])
    /\ UNCHANGED <<storeVars, now, sales, histVars>>

\* on win32 the wmic subprocess of getMotherboardInfo does not return: exec
\* is called without a timeout, so its callback is never run and the
\* promise of generateHardwareFingerprint stays pending
ProbeNeverReturns(p) ==
    /\ pc[p] = "act_fingerprint"
    /\ Continue(p, "act_fingerprint_hung", loc[p])
    /\ UNCHANGED <<storeVars, now, sales, histVars>>

\* Settle, but the UPDATE is issued whatever the validation result says
Settle_AlwaysUpdates(p, l, v) ==
    Continue(p, "act_update", [l EXCEPT !.validationResult = v])

\* activateLicense goes on with a validation result: issue the UPDATE or reject
Settle(p, l, v) ==
    IF v.success
    THEN Continue(p, "act_update", [l EXCEPT !.validationResult = v])
    ELSE Respond(p, RejectValidation(p, l, v))

\* FallBackOffline, but the validate request is sent again instead
FallBackOffline_Retries(p, l) == Continue(p, "act_validate", l)

\* validateOnline threw: activateLicense calls validateOffline, which issues
\* the SELECT on preloaded_sns
FallBackOffline(p, l) == Continue(p, "act_offline", l)

\* the answer to the validate request arrives
ActivateValidateResponse(p) ==
    /\ pc[p] = "act_validate"
    /\ \E resp \in ValidateResponses :
         LET l == [loc[p] EXCEPT !.validateAnswer = resp]
         IN IF Throws(resp) THEN FallBackOffline(p, l)
            ELSE LET v == OnValidateBody(resp) IN
                 IF v.code = "activate"
                 THEN Continue(p, "act_activate",
                               [l EXCEPT !.activateRequests = @ + 1,
                                         !.activatePayload =
                                            Payload(l.serialNumber, l.hardwareId)])
                 ELSE Settle(p, l, v)
    /\ UNCHANGED <<storeVars, now, sales, histVars>>

\* the answer to the activate request arrives
ActivateActivateResponse(p) ==
    /\ pc[p] = "act_activate"
    /\ \E resp \in ActivateResponses :
         LET l == [loc[p] EXCEPT !.activateAnswer = resp]
         IN IF ActivateThrows(resp) THEN FallBackOffline(p, l)
            ELSE Settle(p, l, OnActivateResponse(resp))
    /\ UNCHANGED <<storeVars, now, sales, histVars>>

\* ActivateOfflineLookup, but the valid column of the row is not looked at
ActivateOfflineLookup_IgnoresValid(p) ==
    /\ pc[p] = "act_offline"
    /\ LET sn == loc[p].serialNumber
           found == sn \in DOMAIN preloaded_sns
           l == [loc[p] EXCEPT !.offlineLookups = @ + 1]
       IN IF found
          THEN /\ Settle(p, l, Validation(TRUE, "null", preloaded_sns[sn].license_type,
                            FALSE, NullTime, "Validated offline - will sync when online",
                            "none", "offline"))
               /\ UNCHANGED queueInserts
          ELSE /\ Len(validation_queue) + Len(queueInserts) < MaxQueue
               /\ queueInserts' = Append(queueInserts,
                     [serial_number |-> sn, hardware_id |-> loc[p].hardwareId])
               /\ Settle(p, [l EXCEPT !.queued = @ + 1],
                         Validation(TRUE, "null", "unknown", TRUE, now + GraceTicks,
                            "Temporary activation - requires online verification within 30 days",
                            "none", "offline"))
    /\ UNCHANGED <<transaction_counter, preloaded_sns, validation_queue, now, sales, histVars>>

\* ActivateOfflineLookup, but a serial found offline gets the default type
ActivateOfflineLookup_TypeDefault(p) ==
    /\ pc[p] = "act_offline"
    /\ LET sn == loc[p].serialNumber
           found == sn \in DOMAIN preloaded_sns /\ preloaded_sns[sn].valid
           l == [loc[p] EXCEPT !.offlineLookups = @ + 1]
       IN IF found
          THEN /\ Settle(p, l, Validation(TRUE, "null", "standard",
                            FALSE, NullTime, "Validated offline - will sync when online",
                            "none", "offline"))
               /\ UNCHANGED queueInserts
          ELSE /\ Len(validation_queue) + Len(queueInserts) < MaxQueue
               /\ queueInserts' = Append(queueInserts,
                     [serial_number |-> sn, hardware_id |-> loc[p].hardwareId])
               /\ Settle(p, [l EXCEPT !.queued = @ + 1],
                         Validation(TRUE, "null", "unknown", TRUE, now + GraceTicks,
                            "Temporary activation - requires online verification within 30 days",
                            "none", "offline"))
    /\ UNCHANGED <<transaction_counter, preloaded_sns, validation_queue, now, sales, histVars>>

\* validateOffline: the SELECT on preloaded_sns runs; an unknown serial is
\* queued (queueForOnlineValidation issues its INSERT and is not awaited)
ActivateOfflineLookup(p) ==
    /\ pc[p] = "act_offline"
    /\ LET sn == loc[p].serialNumber
           found == sn \in DOMAIN preloaded_sns /\ preloaded_sns[sn].valid
           l == [loc[p] EXCEPT !.offlineLookups = @ + 1]
       IN IF found
          THEN /\ Settle(p, l, Validation(TRUE, "null", preloaded_sns[sn].license_type,
                            FALSE, NullTime, "Validated offline - will sync when online",
                            "none", "offline"))
               /\ UNCHANGED queueInserts
          ELSE /\ Len(validation_queue) + Len(queueInserts) < MaxQueue
               /\ queueInserts' = Append(queueInserts,
                     [serial_number |-> sn, hardware_id |-> loc[p].hardwareId])
               /\ Settle(p, [l EXCEPT !.queued = @ + 1],
                         Validation(TRUE, "null", "unknown", TRUE, now + GraceTicks,
                            "Temporary activation - requires online verification within 30 days",
                            "none", "offline"))
    /\ UNCHANGED <<transaction_counter, preloaded_sns, validation_queue, now, sales, histVars>>

\* the SELECT on preloaded_sns fails: validateOffline rejects with the error
ActivateOfflineLookupError(p) ==
    /\ pc[p] = "act_offline"
    /\ Respond(p, ActRejected(p, [loc[p] EXCEPT !.offlineLookups = @ + 1],
                              "SQLITE_ERROR", "null", "none", "storage"))
    /\ UNCHANGED <<storeVars, now, sales, histVars>>

\* ActivateUpdate, but a store that holds a permanent activation keeps it
ActivateUpdate_KeepsPermanent(p) ==
    /\ pc[p] = "act_update"
    /\ LET v == loc[p].validationResult
           permanent == row.license_status = "activated" /\ row.temporary_until = NullTime
       IN
       /\ transaction_counter' =
            IF permanent /\ v.temporary THEN transaction_counter
            ELSE [transaction_counter EXCEPT ![CounterId] =
                   [@ EXCEPT !.license_status = "activated",
                             !.serial_number = loc[p].serialNumber,
                             !.hardware_id = loc[p].hardwareId,
                             !.activation_date = now,
                             !.last_validation = now,
                             !.temporary_until = IF v.temporary THEN v.expires ELSE NullTime]]
       /\ Respond(p, ActResolved(p, [loc[p] EXCEPT !.storeWrites = @ + 1], v))
    /\ UNCHANGED <<preloaded_sns, validation_queue, queueInserts, now, sales, histVars>>

\* ActivateUpdate, but a non-temporary activation leaves temporary_until alone
ActivateUpdate_KeepsExpiry(p) ==
    /\ pc[p] = "act_update"
    /\ LET v == loc[p].validationResult IN
       /\ transaction_counter' = [transaction_counter EXCEPT ![CounterId] =
            [@ EXCEPT !.license_status = "activated",
                      !.serial_number = loc[p].serialNumber,
                      !.hardware_id = loc[p].hardwareId,
                      !.activation_date = now,
                      !.last_validation = now,
                      !.temporary_until = IF v.temporary THEN v.expires ELSE @]]
       /\ Respond(p, ActResolved(p, [loc[p] EXCEPT !.storeWrites = @ + 1], v))
    /\ UNCHANGED <<preloaded_sns, validation_queue, queueInserts, now, sales, histVars>>

\* the UPDATE of activateLicense runs and the promise resolves
ActivateUpdate(p) ==
    /\ pc[p] = "act_update"
    /\ LET v == loc[p].validationResult IN
       /\ transaction_counter' = [transaction_counter EXCEPT ![CounterId] =
            [@ EXCEPT !.license_status = "activated",
                      !.serial_number = loc[p].serialNumber,
                      !.hardware_id = loc[p].hardwareId,
                      !.activation_date = now,
                      !.last_validation = now,
                      !.temporary_until = IF v.temporary THEN v.expires ELSE NullTime]]
       /\ Respond(p, ActResolved(p, [loc[p] EXCEPT !.storeWrites = @ + 1], v))
    /\ UNCHANGED <<preloaded_sns, validation_queue, queueInserts, now, sales, histVars>>

\* the UPDATE fails: activateLicense rejects with the error
ActivateUpdateError(p) ==
    /\ pc[p] = "act_update"
    /\ Respond(p, ActRejected(p, loc[p], "SQLITE_ERROR", "null", "none", "storage"))
    /\ UNCHANGED <<storeVars, now, sales, histVars>>

RemoveAt(s, i) == SubSeq(s, 1, i - 1) \o SubSeq(s, i + 1, Len(s))

\* one INSERT OR REPLACE INTO validation_queue runs (each has its own connection)
QueueInsert ==
    /\ \E i \in 1..Len(queueInserts) :
         /\ validation_queue' = Append(validation_queue,
              [id |-> Len(validation_queue) + 1,
               serial_number |-> queueInserts[i].serial_number,
               hardware_id |-> queueInserts[i].hardware_id,
               timestamp |-> now, attempts |-> 0, status |-> "pending"])
         /\ queueInserts' = RemoveAt(queueInserts, i)
    /\ result' = NoResult
    /\ UNCHANGED <<transaction_counter, preloaded_sns, now, sales, pc, loc, histVars>>

\* one INSERT fails: the error is logged and the entry is lost
QueueInsertError ==
    /\ \E i \in 1..Len(queueInserts) : queueInserts' = RemoveAt(queueInserts, i)
    /\ result' = NoResult
    /\ UNCHANGED <<transaction_counter, preloaded_sns, validation_queue, now, sales,
                   pc, loc, histVars>>

(* ------------------------- other operations ---------------------------- *)
\* ResetTrial, but the validation queue is emptied as well
ResetTrial_ClearsQueue(p) ==
    /\ pc[p] = "idle"
    /\ transaction_counter' = [transaction_counter EXCEPT ![CounterId] =
         [@ EXCEPT !.total_transactions = 0,
                   !.license_status = "trial",
                   !.serial_number = NullSerial,
                   !.hardware_id = NullHw,
                   !.activation_date = NullTime,
                   !.temporary_until = NullTime]]
    /\ validation_queue' = <<>>
    /\ result' = [op |-> "reset", proc |-> p, settled |-> "resolved", success |-> TRUE]
    /\ startCount' = 0
    /\ nSucc' = 0
    /\ nFail' = 0
    /\ UNCHANGED <<preloaded_sns, queueInserts, now, sales, pc, loc, nAct>>

\* ResetTrial, but the expiry of a temporary activation is left in place
ResetTrial_KeepsExpiry(p) ==
    /\ pc[p] = "idle"
    /\ transaction_counter' = [transaction_counter EXCEPT ![CounterId] =
         [@ EXCEPT !.total_transactions = 0,
                   !.license_status = "trial",
                   !.serial_number = NullSerial,
                   !.hardware_id = NullHw,
                   !.activation_date = NullTime]]
    /\ result' = [op |-> "reset", proc |-> p, settled |-> "resolved", success |-> TRUE]
    /\ startCount' = 0
    /\ nSucc' = 0
    /\ nFail' = 0
    /\ UNCHANGED <<preloaded_sns, validation_queue, queueInserts, now, sales,
                   pc, loc, nAct>>

\* ResetTrial, but the count is left as it is
ResetTrial_KeepsCount(p) ==
    /\ pc[p] = "idle"
    /\ transaction_counter' = [transaction_counter EXCEPT ![CounterId] =
         [@ EXCEPT !.license_status = "trial",
                   !.serial_number = NullSerial,
                   !.hardware_id = NullHw,
                   !.activation_date = NullTime,
                   !.temporary_until = NullTime]]
    /\ result' = [op |-> "reset", proc |-> p, settled |-> "resolved", success |-> TRUE]
    /\ startCount' = 0
    /\ nSucc' = 0
    /\ nFail' = 0
    /\ UNCHANGED <<preloaded_sns, validation_queue, queueInserts, now, sales,
                   pc, loc, nAct>>

\* resetTrialCounter: one UPDATE; the histories start again
ResetTrial(p) ==
    /\ pc[p] = "idle"
    /\ transaction_counter' = [transaction_counter EXCEPT ![CounterId] =
         [@ EXCEPT !.total_transactions = 0,
                   !.license_status = "trial",
                   !.serial_number = NullSerial,
                   !.hardware_id = NullHw,
                   !.activation_date = NullTime,
                   !.temporary_until = NullTime]]
    /\ result' = [op |-> "reset", proc |-> p, settled |-> "resolved", success |-> TRUE]
    /\ startCount' = 0
    /\ nSucc' = 0
    /\ nFail' = 0
    /\ UNCHANGED <<preloaded_sns, validation_queue, queueInserts, now, sales,
                   pc, loc, nAct>>

Max(a, b) == IF a > b THEN a ELSE b

\* StatusOf, but only a running grace period counts as unlimited
StatusOf_GraceOnlyUnlimited(p, r, t) ==
    LET isTemporary == r.temporary_until # NullTime /\ r.temporary_until > t IN
    [op |-> "status", proc |-> p, settled |-> "resolved",
     status |-> IF isTemporary THEN "temporary" ELSE r.license_status,
     totalTransactions |-> r.total_transactions,
     remaining |-> IF isTemporary THEN Unlimited
                   ELSE Max(0, maxTrialTransactions - r.total_transactions),
     activated |-> r.license_status = "activated",
     serialNumber |-> r.serial_number, hardwareId |-> r.hardware_id,
     activationDate |-> r.activation_date,
     temporary |-> isTemporary, expires |-> r.temporary_until]

\* the body getActivationStatus resolves with
StatusOf(p, r, t) ==
    LET isTemporary == r.temporary_until # NullTime /\ r.temporary_until > t IN
    [op |-> "status", proc |-> p, settled |-> "resolved",
     status |-> IF isTemporary THEN "temporary" ELSE r.license_status,
     totalTransactions |-> r.total_transactions,
     remaining |-> IF r.license_status = "activated" \/ isTemporary THEN Unlimited
                   ELSE Max(0, maxTrialTransactions - r.total_transactions),
     activated |-> r.license_status = "activated",
     serialNumber |-> r.serial_number, hardwareId |-> r.hardware_id,
     activationDate |-> r.activation_date,
     temporary |-> isTemporary, expires |-> r.temporary_until]

\* getActivationStatus: one SELECT
GetStatus(p) ==
    /\ pc[p] = "idle"
    /\ result' = StatusOf(p, row, now)
    /\ UNCHANGED <<storeVars, now, sales, pc, loc, histVars>>

SaleResponse(p, http) ==
    [op |-> "sale", proc |-> p, settled |-> "resolved", success |-> http = 201,
     http |-> http]

\* POST /api/transactions: an incomplete body is answered 400, a user without
\* an active shift 500; otherwise the sale is inserted and answered 201.  The
\* handler makes no call into the activation service.
CreateTransaction(p) ==
    /\ pc[p] = "idle"
    /\ sales < MaxSales
    /\ \E bodyComplete, shiftActive \in BOOLEAN :
         IF ~bodyComplete
         THEN /\ result' = SaleResponse(p, 400)
              /\ UNCHANGED sales
         ELSE IF ~shiftActive
         THEN /\ result' = SaleResponse(p, 500)
              /\ UNCHANGED sales
         ELSE /\ result' = SaleResponse(p, 201)
              /\ sales' = sales + 1
    /\ UNCHANGED <<storeVars, now, pc, loc, histVars>>

\* time passes
Tick ==
    /\ now < MaxTime
    /\ now' = now + 1
    /\ result' = NoResult
    /\ UNCHANGED <<storeVars, sales, pc, loc, histVars>>

(* ------------------------------ start-up ------------------------------- *)
\* counts a trial installation can have stored before this start-up
StartCounts == {0} \cup ((maxTrialTransactions - 3)..maxTrialTransactions)

\* an activation a previous run can have stored
ActivatedRow(count) ==
    [DefaultRow EXCEPT !.total_transactions = count,
                       !.license_status = "activated",
                       !.serial_number = SN_PRELOADED,
                       !.hardware_id = createFlexibleFingerprint,
                       !.activation_date = 0,
                       !.last_validation = 0]

InitCommon ==
    /\ preloaded_sns = PreloadedRows
    /\ validation_queue = <<>>
    /\ queueInserts = <<>>
    /\ now = 0
    /\ sales = 0
    /\ pc = [p \in Procs |-> "idle"]
    /\ loc = [p \in Procs |-> NoLoc]
    /\ result = NoResult
    /\ startCount = row.total_transactions
    /\ nSucc = 0
    /\ nFail = 0
    /\ nAct = 0

\* a fresh installation
InitFresh ==
    /\ transaction_counter = [id \in {CounterId} |-> DefaultRow]
    /\ InitCommon

\* start-up on a database left by earlier runs (initDB keeps existing rows)
InitStored ==
    /\ \E c \in StartCounts :
         transaction_counter \in
           { [id \in {CounterId} |-> [DefaultRow EXCEPT !.total_transactions = c]],
             [id \in {CounterId} |-> ActivatedRow(c)] }
    /\ InitCommon

\* InitDBCounter, but the default row is inserted under the next free id
InitDBCounter_Appends(table) ==
    LET free == CHOOSE id \in 1..(Cardinality(DOMAIN table) + 1) : id \notin DOMAIN table
    IN [id \in DOMAIN table \cup {free} |->
          IF id \in DOMAIN table THEN table[id] ELSE DefaultRow]

\* INSERT OR IGNORE INTO transaction_counter (id, total_transactions) VALUES (1, 0)
InitDBCounter(table) ==
    [id \in DOMAIN table \cup {CounterId} |->
       IF id \in DOMAIN table THEN table[id] ELSE DefaultRow]

\* InitDBPreloaded, but with INSERT OR REPLACE
InitDBPreloaded_Replaces(table) ==
    [sn \in DOMAIN table \cup testSNs |->
       IF sn \in testSNs THEN PreloadedRows[sn] ELSE table[sn]]

\* INSERT OR IGNORE INTO preloaded_sns ..., once for every test serial
InitDBPreloaded(table) ==
    [sn \in DOMAIN table \cup testSNs |->
       IF sn \in DOMAIN table THEN table[sn] ELSE PreloadedRows[sn]]

\* the process starts again on the store as it is: the constructor runs
\* initDB (CREATE TABLE IF NOT EXISTS keeps the tables)
Restart ==
    /\ \A p \in Procs : pc[p] = "idle"
    /\ queueInserts = <<>>
    /\ transaction_counter' = InitDBCounter(transaction_counter)
    /\ preloaded_sns' = InitDBPreloaded(preloaded_sns)
    /\ result' = [op |-> "initDB", settled |-> "resolved"]
    /\ UNCHANGED <<validation_queue, queueInserts, now, sales, pc, loc, histVars>>

(* ------------- concurrent increments only, no reset/activation --------- *)
NextInc ==
    \E p \in Procs :
      \/ IncrementBegin(p, MaxIncCalls)
      \/ IncrementGet(p)
      \/ IncrementRunActivated(p)
      \/ IncrementRunTrial(p)

SpecInc == InitStored /\ [][NextInc]_vars

(* ------------- one client calling increment sequentially --------------- *)
NextSeq ==
    \/ IncrementBegin(1, MaxSeqCalls)
    \/ IncrementGet(1)
    \/ IncrementRunTrial(1)

SpecSeq == InitFresh /\ [][NextSeq]_vars

(* ------------- sales and increments ------------------------------------ *)
NextSale ==
    \E p \in Procs :
      \/ IncrementBegin(p, MaxIncCalls)
      \/ IncrementGet(p)
      \/ IncrementRunActivated(p)
      \/ IncrementRunTrial(p)
      \/ CreateTransaction(p)

SpecSale == InitStored /\ [][NextSale]_vars

(* ------- one client activating, with and without storage errors ------- *)
NextAct ==
    \/ \E serialNumber \in Serials : ActivateBegin(1, serialNumber)
    \/ ActivateFingerprint(1)
    \/ ActivateValidateResponse(1)
    \/ ActivateActivateResponse(1)
    \/ ActivateOfflineLookup(1)
    \/ ActivateUpdate(1)
    \/ QueueInsert
    \/ Tick

SpecAct == InitFresh /\ [][NextAct]_vars

NextActFault ==
    \/ NextAct
    \/ ActivateOfflineLookupError(1)
    \/ ActivateUpdateError(1)
    \/ QueueInsertError

SpecActFault == InitFresh /\ [][NextActFault]_vars

(* ------- one client activating on a database shipped with the product -- *)
\* rows preloaded_sns can hold when initDB runs, other than the one initDB
\* writes itself: CREATE TABLE IF NOT EXISTS and INSERT OR IGNORE keep a row
\* that is already there
ShippedRows ==
    { [valid |-> TRUE, max_installations |-> 3, license_type |-> "pro"],
      [valid |-> FALSE, max_installations |-> 3, license_type |-> "pro"] }

InitShipped ==
    /\ transaction_counter = [id \in {CounterId} |-> DefaultRow]
    /\ \E shipped \in ShippedRows :
         preloaded_sns = [PreloadedRows EXCEPT ![SN_PRELOADED] = shipped]
    /\ validation_queue = <<>>
    /\ queueInserts = <<>>
    /\ now = 0
    /\ sales = 0
    /\ pc = [p \in Procs |-> "idle"]
    /\ loc = [p \in Procs |-> NoLoc]
    /\ result = NoResult
    /\ startCount = 0
    /\ nSucc = 0
    /\ nFail = 0
    /\ nAct = 0

SpecActShipped == InitShipped /\ [][NextAct]_vars

(* ------- one client activating and asking for the status --------------- *)
NextActStatus ==
    \/ NextAct
    \/ GetStatus(1)

SpecActStatus == InitFresh /\ [][NextActStatus]_vars

(* ------- one client incrementing and asking for the status ------------- *)
\* a temporary grant an earlier run can have stored at time 0
GrantedRow(count) ==
    [ActivatedRow(count) EXCEPT !.serial_number = SN_UNKNOWN,
                                !.temporary_until = GraceTicks]

InitStatus ==
    /\ \E c \in StartCounts :
         transaction_counter \in
           { [id \in {CounterId} |-> [DefaultRow EXCEPT !.total_transactions = c]],
             [id \in {CounterId} |-> ActivatedRow(c)],
             [id \in {CounterId} |-> GrantedRow(c)] }
    /\ InitCommon

NextStatus ==
    \/ IncrementBegin(1, MaxIncCalls)
    \/ IncrementGet(1)
    \/ IncrementRunActivated(1)
    \/ IncrementRunTrial(1)
    \/ GetStatus(1)
    \/ Tick

SpecStatus == InitStatus /\ [][NextStatus]_vars

(* ------- one client resetting and incrementing sequentially ------------ *)
NextReset ==
    \/ IncrementBegin(1, MaxSeqCalls)
    \/ IncrementGet(1)
    \/ IncrementRunActivated(1)
    \/ IncrementRunTrial(1)
    \/ ResetTrial(1)

SpecReset == InitStatus /\ [][NextReset]_vars

(* ------- one client using every operation, with restarts --------------- *)
(* ------- clients incrementing while a reset is requested ---------------- *)
NextRace ==
    \E p \in Procs :
      \/ IncrementBegin(p, MaxIncCalls)
      \/ IncrementGet(p)
      \/ IncrementRunActivated(p)
      \/ IncrementRunTrial(p)
      \/ ResetTrial(p)

SpecRace == InitStatus /\ [][NextRace]_vars

(* ------- a reset and a whole trial while one UPDATE is still to run ----- *)
\* client 1 resets and increments call after call; the SELECT of client 2's
\* increment runs on an activated store and its UPDATE at any time after
NextLate ==
    \/ IncrementBegin(1, MaxSeqCalls)
    \/ IncrementGet(1)
    \/ IncrementRunActivated(1)
    \/ IncrementRunTrial(1)
    \/ ResetTrial(1)
    \/ (row.license_status = "activated" /\ IncrementBegin(2, MaxIncCalls))
    \/ (row.license_status = "activated" /\ IncrementGet(2))
    \/ IncrementRunActivated(2)

SpecLate == InitStatus /\ [][NextLate]_vars

(* ------- one client while the grace period runs out --------------------- *)
NextExpiry == NextStatus \/ ResetTrial(1)

SpecExpiry == InitStatus /\ [][NextExpiry]_vars

(* ------- one client activating on a store that is activated ------------ *)
\* a previous run has stored a permanent activation
InitActivated ==
    /\ transaction_counter = [id \in {CounterId} |-> ActivatedRow(0)]
    /\ InitCommon

\* serials that get past the checks of activateLicense
CheckedSerials == {sn \in Serials : isValidSNFormat(sn) /\ isValidCRC(sn)}

NextStore ==
    \/ \E serialNumber \in CheckedSerials : ActivateBegin(1, serialNumber)
    \/ ActivateFingerprint(1)
    \/ ActivateValidateResponse(1)
    \/ ActivateActivateResponse(1)
    \/ ActivateOfflineLookup(1)
    \/ ActivateUpdate(1)
    \/ QueueInsert
    \/ IncrementBegin(1, MaxIncCalls)
    \/ IncrementGet(1)
    \/ IncrementRunActivated(1)
    \/ IncrementRunTrial(1)
    \/ ResetTrial(1)
    \/ GetStatus(1)
    \/ Restart

SpecStore == InitShipped /\ [][NextStore]_vars

(* ------- one client activating; requests and statements come to an end - *)
NextReactivate ==
    \/ \E serialNumber \in CheckedSerials : ActivateBegin(1, serialNumber)
    \/ ActivateFingerprint(1)
    \/ ActivateValidateResponse(1)
    \/ ActivateActivateResponse(1)
    \/ ActivateOfflineLookup(1)
    \/ ActivateUpdate(1)
    \/ QueueInsert
    \/ Tick

SpecReactivate == InitActivated /\ [][NextReactivate]_vars

NextActLive ==
    \/ \E serialNumber \in CheckedSerials : ActivateBegin(1, serialNumber)
    \/ ActivateFingerprint(1)
    \/ ActivateValidateResponse(1)
    \/ ActivateActivateResponse(1)
    \/ ActivateOfflineLookup(1)
    \/ ActivateOfflineLookupError(1)
    \/ ActivateUpdate(1)
    \/ ActivateUpdateError(1)
    \/ QueueInsert
    \/ QueueInsertError

\* every fetch settles (answered, refused, or given up by its timeout) and
\* every sqlite statement runs or fails
SpecActLive ==
    /\ InitFresh
    /\ [][NextActLive]_vars
    /\ WF_vars(ActivateValidateResponse(1))
    /\ WF_vars(ActivateActivateResponse(1))
    /\ WF_vars(ActivateOfflineLookup(1) \/ ActivateOfflineLookupError(1))
    /\ WF_vars(ActivateUpdate(1) \/ ActivateUpdateError(1))

(* ------- one client activating on a machine whose probe can hang ------- *)
NextProbe ==
    \/ NextActLive
    \/ ProbeNeverReturns(1)

\* as SpecActLive; a probe that returns lets generateHardwareFingerprint settle
SpecProbe ==
    /\ InitFresh
    /\ [][NextProbe]_vars
    /\ WF_vars(ActivateFingerprint(1))
    /\ WF_vars(ActivateValidateResponse(1))
    /\ WF_vars(ActivateActivateResponse(1))
    /\ WF_vars(ActivateOfflineLookup(1) \/ ActivateOfflineLookupError(1))
    /\ WF_vars(ActivateUpdate(1) \/ ActivateUpdateError(1))

(* ============================= properties ============================== *)
AllIdle == \A p \in Procs : pc[p] = "idle"

\* C1: with the store in trial status and only incrementTransaction calls
\* running, the number of calls that resolve is at most 99 minus the count
\* at the start.
C1_AtMostRemainingSucceed ==
    row.license_status = "trial" => nSucc <= 99 - startCount

\* C2: no lost updates: once all incrementTransaction calls have finished,
\* the stored total_transactions is its start value plus the number of calls
\* that resolved.
C2_NoLostUpdates ==
    AllIdle => row.total_transactions = startCount + nSucc

\* C3: from a fresh store, the k-th sequential incrementTransaction call
\* resolves with total = k and remaining = 99 - k for k in 1..99; every later
\* call rejects with TRIAL_LIMIT_REACHED and the stored count stays 99.
C3_SequentialTrial ==
    result.op = "increment" =>
      LET k == nSucc + nFail IN
      IF k <= 99
      THEN /\ result.settled = "resolved"
           /\ result.total = k
           /\ result.remaining = 99 - k
           /\ row.total_transactions = k
      ELSE /\ result.settled = "rejected"
           /\ result.message = "TRIAL_LIMIT_REACHED"
           /\ row.total_transactions = 99

\* the 100th call has been rejected
C3_Witness ==
    /\ result.op = "increment"
    /\ result.settled = "rejected"
    /\ nSucc = 99
    /\ nFail = 1

\* C4: an incrementTransaction call that finds the store in trial status with
\* total_transactions >= 99 rejects with TRIAL_LIMIT_REACHED (answered 403 by
\* the route) and leaves the transaction_counter record unchanged.
C4_RejectAtLimit ==
    [][\A p \in Procs :
         (/\ pc[p] = "inc_get"
          /\ pc'[p] # "inc_get"
          /\ row.license_status = "trial"
          /\ row.total_transactions >= 99)
         => /\ pc'[p] = "idle"
            /\ result'.op = "increment"
            /\ result'.proc = p
            /\ result'.settled = "rejected"
            /\ result'.message = "TRIAL_LIMIT_REACHED"
            /\ result'.error = "TRIAL_LIMIT_REACHED"
            /\ result'.http = 403
            /\ transaction_counter' = transaction_counter]_vars

\* a call has been rejected at the limit
C4_Witness ==
    /\ result.op = "increment"
    /\ result.settled = "rejected"
    /\ row.license_status = "trial"
    /\ row.total_transactions = 99

\* C5: an incrementTransaction call that finds the store activated goes on
\* to its UPDATE whatever the count, and that UPDATE adds exactly one to
\* total_transactions and resolves with remaining 'unlimited' and no warning.
C5_ActivatedUnlimited ==
    [][\A p \in Procs :
         /\ (pc[p] = "inc_get" /\ pc'[p] # "inc_get" /\ row.license_status = "activated")
            => pc'[p] = "inc_run_activated"
         /\ (pc[p] = "inc_run_activated" /\ pc'[p] # "inc_run_activated")
            => /\ transaction_counter'[1].total_transactions
                    = transaction_counter[1].total_transactions + 1
               /\ result'.op = "increment"
               /\ result'.proc = p
               /\ result'.settled = "resolved"
               /\ result'.success
               /\ result'.remaining = Unlimited
               /\ result'.warning = "null"]_vars

\* an activated store has counted past 99
C5_Witness ==
    /\ result.op = "increment"
    /\ result.settled = "resolved"
    /\ result.remaining = Unlimited
    /\ row.license_status = "activated"
    /\ row.total_transactions > 99

\* C6: a resolved trial-mode increment returns remaining = 99 - newCount and
\* the warning critical for remaining <= 4, high for 5..9, medium for 10..19
\* and none from 20 on.
C6_TrialWarning ==
    (result.op = "increment" /\ result.settled = "resolved" /\ result.status = "trial")
    => /\ result.total = row.total_transactions
       /\ result.remaining = 99 - result.total
       /\ (result.warning = "critical") <=> (result.remaining <= 4)
       /\ (result.warning = "high") <=> (result.remaining \in 5..9)
       /\ (result.warning = "medium") <=> (result.remaining \in 10..19)
       /\ (result.warning = "null") <=> (result.remaining >= 20)

\* the increment that leaves 9 has been answered with warning high
C6_Witness ==
    /\ result.op = "increment"
    /\ result.settled = "resolved"
    /\ result.status = "trial"
    /\ result.remaining = 9
    /\ result.warning = "high"

\* C7: a sale is persisted only after an incrementTransaction call for it
\* has resolved, and none is persisted while the store is in trial status
\* with the limit exhausted.
C7_SaleGatedByIncrement ==
    [][sales' > sales
       => /\ sales' <= nSucc'
          /\ ~(row.license_status = "trial" /\ row.total_transactions >= 99)]_vars

\* what a call that touched nothing has done
DidNothing(did) ==
    /\ did.fingerprints = 0
    /\ did.validateRequests = 0
    /\ did.activateRequests = 0
    /\ did.offlineLookups = 0
    /\ did.queued = 0
    /\ did.storeWrites = 0

Activating == {p \in Procs : loc[p].op = "activate"}

\* C8: activateLicense with a serial that fails the format check rejects with
\* the format error (INVALID_FORMAT at the route) in the step that receives
\* it: no fingerprint, no server request, no store or queue access, and the
\* store and the queue are unchanged; no call goes on with such a serial.
C8_FormatFailsFast ==
    /\ [](/\ \A p \in Activating : isValidSNFormat(loc[p].serialNumber)
          /\ (/\ result.op = "activate"
              /\ result.settled # "not_called"
              /\ ~isValidSNFormat(result.serialNumber))
             => /\ result.settled = "rejected"
                /\ result.message = "Invalid serial number format"
                /\ result.error = "INVALID_FORMAT"
                /\ DidNothing(result.did))
    /\ [][(/\ result'.op = "activate"
           /\ result'.settled # "not_called"
           /\ ~isValidSNFormat(result'.serialNumber))
          => UNCHANGED storeVars]_vars

\* the lower-case serial (its checksum segment is right) has been rejected
C8_Witness ==
    /\ result.op = "activate"
    /\ result.serialNumber = SN_LOWER
    /\ isValidCRC(result.serialNumber)
    /\ result.error = "INVALID_FORMAT"

\* C9: a serial that passes the format check and fails the checksum rejects
\* with INVALID_CHECKSUM without fingerprint, server request or store/queue
\* write; a serial failing both checks is reported as INVALID_FORMAT.
C9_FormatBeforeChecksum ==
    /\ [](/\ \A p \in Activating : isValidCRC(loc[p].serialNumber)
          /\ (/\ result.op = "activate"
              /\ result.settled # "not_called"
              /\ ~isValidCRC(result.serialNumber))
             => /\ result.settled = "rejected"
                /\ DidNothing(result.did)
                /\ IF isValidSNFormat(result.serialNumber)
                   THEN /\ result.message = "Invalid serial number checksum"
                        /\ result.error = "INVALID_CHECKSUM"
                   ELSE /\ result.message = "Invalid serial number format"
                        /\ result.error = "INVALID_FORMAT")
    /\ [][(/\ result'.op = "activate"
           /\ result'.settled # "not_called"
           /\ ~isValidCRC(result'.serialNumber))
          => UNCHANGED storeVars]_vars

\* a well-formed serial with a wrong checksum has been rejected
C9_Witness ==
    /\ result.op = "activate"
    /\ result.serialNumber = SN_PRELOADED2
    /\ isValidSNFormat(result.serialNumber)
    /\ result.error = "INVALID_CHECKSUM"

\* online validation failed: the validate request was not answered with a
\* parsable 2xx body, or the activate request was sent and ended unanswered,
\* with a status outside 2xx other than 409, or with an unparsable body
Is2xx(answer) == answer.transport = "ok" /\ answer.status \in 200..299

OnlineFailed(l) ==
    \/ /\ l.validateAnswer.transport # "none"
       /\ ~(Is2xx(l.validateAnswer) /\ l.validateAnswer.bodyOk)
    \/ /\ l.activateAnswer.transport # "none"
       /\ l.activateAnswer.status # 409
       /\ ~(Is2xx(l.activateAnswer) /\ l.activateAnswer.bodyOk)

\* C10: whenever online validation has failed, activateLicense runs offline
\* validation and answers with the offline result; the only other outcome
\* is the storage error of a failed offline lookup or update.
C10_OnlineFailureFallsBack ==
    /\ \A p \in Activating :
         OnlineFailed(loc[p])
         => /\ pc[p] \in {"act_offline", "act_update"}
            /\ pc[p] = "act_update"
               => /\ loc[p].offlineLookups = 1
                  /\ loc[p].validationResult.source = "offline"
    /\ (/\ result.op = "activate"
        /\ result.settled # "not_called"
        /\ OnlineFailed(result.did))
       => /\ result.did.offlineLookups = 1
          /\ \/ /\ result.source = "offline"
                /\ result.settled = "resolved"
                /\ result.temporary = (result.serialNumber \notin DOMAIN preloaded_sns)
                /\ result.type = IF result.temporary THEN "unknown" ELSE "standard"
             \/ /\ result.source = "storage"
                /\ result.settled = "rejected"
                /\ result.message = "SQLITE_ERROR"

\* a validate request answered 500 has ended in an offline activation
C10_Witness ==
    /\ result.op = "activate"
    /\ result.settled = "resolved"
    /\ result.did.validateAnswer.status = 500
    /\ result.source = "offline"

\* the body of a request that was answered with a parsable 2xx body
Parsed(answer) == Is2xx(answer) /\ answer.bodyOk

\* the server has signalled MAX_INSTALLATIONS_REACHED: in the validate body,
\* or with a 409 to the activate request
MaxSignalled(l) ==
    \/ /\ Parsed(l.validateAnswer)
       /\ ~l.validateAnswer.valid
       /\ l.validateAnswer.reason = "MAX_INSTALLATIONS_REACHED"
    \/ /\ l.activateAnswer.transport = "ok"
       /\ l.activateAnswer.status = 409

\* C11: when the server signals MAX_INSTALLATIONS_REACHED (validate body with
\* valid=false and that reason, or a 409 to the activate request), the call
\* rejects in the step that receives the answer with code
\* MAX_INSTALLATIONS_REACHED (409 at the route), carrying the installations
\* list of the validate body when it has one and an empty list otherwise; no
\* offline lookup, no temporary grant, no queue entry, and the store and the
\* queue are unchanged.
C11_MaxInstallationsSurfaced ==
    /\ [](/\ \A p \in Activating : ~MaxSignalled(loc[p])
          /\ (/\ result.op = "activate"
              /\ result.settled # "not_called"
              /\ MaxSignalled(result.did))
             => /\ result.settled = "rejected"
                /\ result.code = "MAX_INSTALLATIONS_REACHED"
                /\ result.error = "MAX_INSTALLATIONS_REACHED"
                /\ result.http = 409
                /\ result.installations =
                     IF result.did.validateAnswer.installations = "list"
                     THEN "list" ELSE "empty"
                /\ ~result.temporary
                /\ result.did.offlineLookups = 0
                /\ result.did.queued = 0
                /\ result.did.storeWrites = 0)
    /\ [][(/\ result'.op = "activate"
           /\ result'.settled # "not_called"
           /\ MaxSignalled(result'.did))
          => UNCHANGED storeVars]_vars

\* the activate request has been answered 409 and the call has rejected
C11_Witness ==
    /\ result.op = "activate"
    /\ result.did.activateAnswer.status = 409
    /\ result.code = "MAX_INSTALLATIONS_REACHED"
    /\ result.installations = "empty"

\* the validate body refuses the serial for a reason other than
\* MAX_INSTALLATIONS_REACHED (or for none)
OtherRefusal(l) ==
    /\ Parsed(l.validateAnswer)
    /\ ~l.validateAnswer.valid
    /\ l.validateAnswer.reason # "MAX_INSTALLATIONS_REACHED"

\* C12: when the validate body says valid=false with a reason other than
\* MAX_INSTALLATIONS_REACHED, validateOnline hands back that reason as code
\* and message, and activateLicense rejects in that step with the reason as
\* its message (without a reason: "Serial number not valid") and without the
\* distinguished code; no offline lookup, no queue entry, and the store and
\* the queue are unchanged.
C12_RefusalPropagated ==
    /\ [](/\ \A p \in Activating : ~OtherRefusal(loc[p])
          /\ (/\ result.op = "activate"
              /\ result.settled # "not_called"
              /\ OtherRefusal(result.did))
             => LET reason == result.did.validateAnswer.reason
                    v == OnValidateBody(result.did.validateAnswer)
                IN /\ ~v.success
                   /\ v.code = IF reason = "null" THEN "SN_NOT_VALID" ELSE reason
                   /\ v.message = IF reason = "null" THEN "Serial number not valid"
                                  ELSE reason
                   /\ result.settled = "rejected"
                   /\ result.message = v.message
                   /\ result.code = "null"
                   /\ result.http = 400
                   /\ result.source = "online"
                   /\ ~result.temporary
                   /\ result.did.activateRequests = 0
                   /\ result.did.offlineLookups = 0
                   /\ result.did.queued = 0
                   /\ result.did.storeWrites = 0)
    /\ [][(/\ result'.op = "activate"
           /\ result'.settled # "not_called"
           /\ OtherRefusal(result'.did))
          => UNCHANGED storeVars]_vars

\* a call refused with reason SN_NOT_FOUND has rejected with that message
C12_Witness ==
    /\ result.op = "activate"
    /\ result.settled = "rejected"
    /\ result.did.validateAnswer.reason = "SN_NOT_FOUND"
    /\ result.message = "SN_NOT_FOUND"

\* the validate body accepts the serial without a slot to claim: existing is
\* set, or neither existing nor canActivate is
DirectSuccess(l) ==
    /\ Parsed(l.validateAnswer)
    /\ l.validateAnswer.valid
    /\ (l.validateAnswer.existing \/ ~l.validateAnswer.canActivate)

\* C13: when the validate body says valid=true with existing=true, or
\* valid=true with neither existing nor canActivate, validateOnline succeeds
\* as non-temporary without an activate request, and activateLicense goes on
\* to its UPDATE and persists a non-temporary activation (status activated,
\* the serial, temporary_until NULL) and resolves with temporary=false.
C13_DirectOnlineSuccess ==
    /\ \A p \in Activating :
         DirectSuccess(loc[p])
         => /\ pc[p] = "act_update"
            /\ loc[p].activateRequests = 0
            /\ loc[p].offlineLookups = 0
            /\ loc[p].validationResult.success
            /\ ~loc[p].validationResult.temporary
            /\ loc[p].validationResult.source = "online"
    /\ (/\ result.op = "activate"
        /\ result.settled # "not_called"
        /\ DirectSuccess(result.did))
       => /\ result.settled = "resolved"
          /\ result.source = "online"
          /\ ~result.temporary
          /\ result.expires = NullTime
          /\ result.type = OrElse(result.did.validateAnswer.type, "standard")
          /\ result.message = IF result.did.validateAnswer.existing
                              THEN "Already activated on this hardware"
                              ELSE "Validated online successfully"
          /\ result.did.activateRequests = 0
          /\ result.did.offlineLookups = 0
          /\ result.did.queued = 0
          /\ row.license_status = "activated"
          /\ row.serial_number = result.serialNumber
          /\ row.temporary_until = NullTime

\* a body with existing and canActivate both set has activated the store
\* without an activate request
C13_Witness ==
    /\ result.op = "activate"
    /\ result.settled = "resolved"
    /\ result.did.validateAnswer.existing
    /\ result.did.validateAnswer.canActivate
    /\ result.did.activateRequests = 0
    /\ row.license_status = "activated"

\* the validate body offers a slot: valid and canActivate, not existing
NeedsSlot(l) ==
    /\ Parsed(l.validateAnswer)
    /\ l.validateAnswer.valid
    /\ ~l.validateAnswer.existing
    /\ l.validateAnswer.canActivate

\* the activate request was answered with a status outside 2xx other than 409
OtherStatus(answer) ==
    answer.transport = "ok" /\ ~Is2xx(answer) /\ answer.status # 409

\* C14: when the validate body says valid=true with canActivate=true and not
\* existing, the step that receives it sends exactly one activate request
\* with the payload of the validate request; a 409 rejects with
\* MAX_INSTALLATIONS_REACHED, any other status outside 2xx sends the call to
\* offline validation, and a body with success=true gives a non-temporary
\* online success.
C14_SlotClaimedOnce ==
    /\ \A p \in Activating :
         /\ loc[p].activateRequests = IF NeedsSlot(loc[p]) THEN 1 ELSE 0
         /\ NeedsSlot(loc[p])
            => /\ loc[p].activatePayload = loc[p].validatePayload
               /\ loc[p].activatePayload =
                    Payload(loc[p].serialNumber, loc[p].hardwareId)
               /\ loc[p].activateAnswer.transport = "none" <=> pc[p] = "act_activate"
               /\ loc[p].activateAnswer.status # 409
               /\ OtherStatus(loc[p].activateAnswer)
                  => /\ pc[p] \in {"act_offline", "act_update"}
                     /\ pc[p] = "act_update"
                        => /\ loc[p].offlineLookups = 1
                           /\ loc[p].validationResult.source = "offline"
               /\ (Parsed(loc[p].activateAnswer) /\ loc[p].activateAnswer.success)
                  => /\ pc[p] = "act_update"
                     /\ loc[p].offlineLookups = 0
                     /\ loc[p].validationResult.source = "online"
                     /\ ~loc[p].validationResult.temporary
    /\ (/\ result.op = "activate"
        /\ result.settled # "not_called"
        /\ NeedsSlot(result.did))
       => /\ result.did.activateRequests = 1
          /\ result.did.activatePayload = result.did.validatePayload
          /\ result.did.activateAnswer.status = 409
             => /\ result.settled = "rejected"
                /\ result.code = "MAX_INSTALLATIONS_REACHED"
                /\ result.did.offlineLookups = 0
          /\ OtherStatus(result.did.activateAnswer)
             => /\ result.settled = "resolved"
                /\ result.did.offlineLookups = 1
                /\ result.source = "offline"
          /\ (Parsed(result.did.activateAnswer) /\ result.did.activateAnswer.success)
             => /\ result.settled = "resolved"
                /\ result.source = "online"
                /\ ~result.temporary
                /\ result.type = "standard"
                /\ result.did.offlineLookups = 0
                /\ row.temporary_until = NullTime

\* an activate request answered 500 has ended in an offline activation
C14_Witness ==
    /\ result.op = "activate"
    /\ result.settled = "resolved"
    /\ NeedsSlot(result.did)
    /\ result.did.activateRequests = 1
    /\ result.did.activateAnswer.status = 500
    /\ result.source = "offline"

\* the SELECT of validateOffline finds the serial with valid set
FoundOffline(serialNumber) ==
    /\ serialNumber \in DOMAIN preloaded_sns
    /\ preloaded_sns[serialNumber].valid

\* C15: offline validation of a serial that preloaded_sns holds with valid
\* set succeeds as non-temporary with the license_type of that row; the
\* lookup queues nothing, and the call resolves with temporary=false and
\* leaves temporary_until NULL in the stored record.
C15_OfflineKnownSerial ==
    /\ [](/\ \A p \in Activating :
               (pc[p] = "act_update" /\ loc[p].offlineLookups = 1
                  /\ FoundOffline(loc[p].serialNumber))
               => /\ loc[p].validationResult.source = "offline"
                  /\ ~loc[p].validationResult.temporary
                  /\ loc[p].validationResult.type =
                       preloaded_sns[loc[p].serialNumber].license_type
                  /\ loc[p].queued = 0
          /\ (/\ result.op = "activate"
              /\ result.settled # "not_called"
              /\ result.did.offlineLookups = 1
              /\ FoundOffline(result.serialNumber))
             => /\ result.settled = "resolved"
                /\ result.source = "offline"
                /\ ~result.temporary
                /\ result.expires = NullTime
                /\ result.type = preloaded_sns[result.serialNumber].license_type
                /\ result.message = "Validated offline - will sync when online"
                /\ result.did.queued = 0
                /\ row.temporary_until = NullTime)
    /\ [][\A p \in Procs :
            (/\ pc[p] = "act_offline"
             /\ pc'[p] # "act_offline"
             /\ FoundOffline(loc[p].serialNumber))
            => UNCHANGED <<validation_queue, queueInserts>>]_vars

\* a serial shipped with type pro has been activated offline
C15_Witness ==
    /\ result.op = "activate"
    /\ result.settled = "resolved"
    /\ result.source = "offline"
    /\ result.serialNumber = SN_PRELOADED
    /\ result.type = "pro"
    /\ ~result.temporary
    /\ row.temporary_until = NullTime

\* the serial/hardware pairs of the rows of validation_queue and of the
\* INSERTs on their way to it
QueuedPairs(vq, qi) ==
    {<<vq[i].serial_number, vq[i].hardware_id>> : i \in 1..Len(vq)}
    \cup {<<qi[i].serial_number, qi[i].hardware_id>> : i \in 1..Len(qi)}

\* rows of validation_queue, and INSERTs on their way to it, that carry the
\* serial and the hardware id
QueuedFor(vq, qi, serialNumber, hardwareId) ==
    Cardinality({i \in 1..Len(vq) : /\ vq[i].serial_number = serialNumber
                                    /\ vq[i].hardware_id = hardwareId})
    + Cardinality({i \in 1..Len(qi) : /\ qi[i].serial_number = serialNumber
                                      /\ qi[i].hardware_id = hardwareId})

\* C16: a call with a well-formed, checksum-valid serial that the offline
\* lookup does not find (absent, or present with valid unset) after the
\* server could not be reached resolves with success, temporary=true and
\* expires = the time of the lookup + 30 days, stores that expiry in
\* temporary_until, and issues exactly one INSERT into validation_queue,
\* with the serial and the fingerprint of the call; that INSERT becomes one
\* row, and nothing else adds or removes an entry.
C16_TemporaryGrant ==
    /\ [](/\ \A p \in Activating :
               (pc[p] = "act_update" /\ loc[p].offlineLookups = 1
                  /\ ~FoundOffline(loc[p].serialNumber))
               => /\ loc[p].validationResult.temporary
                  /\ loc[p].validationResult.expires \in GraceTicks..(now + GraceTicks)
                  /\ loc[p].queued = 1
                  /\ QueuedFor(validation_queue, queueInserts,
                               loc[p].serialNumber, loc[p].hardwareId) >= 1
          /\ (/\ result.op = "activate"
              /\ result.settled # "not_called"
              /\ result.did.offlineLookups = 1
              /\ ~FoundOffline(result.serialNumber))
             => /\ isValidSNFormat(result.serialNumber)
                /\ isValidCRC(result.serialNumber)
                /\ result.settled = "resolved"
                /\ result.success
                /\ result.temporary
                /\ result.type = "unknown"
                /\ result.expires \in GraceTicks..(now + GraceTicks)
                /\ row.temporary_until = result.expires
                /\ row.license_status = "activated"
                /\ result.did.queued = 1
                /\ QueuedFor(validation_queue, queueInserts,
                             result.serialNumber, result.hardwareId) >= 1)
    /\ [][\A p \in Procs :
            /\ (/\ pc[p] = "act_offline"
                /\ pc'[p] # "act_offline"
                /\ ~FoundOffline(loc[p].serialNumber))
               => /\ pc'[p] = "act_update"
                  /\ loc'[p].validationResult.expires = now + GraceTicks
                  /\ validation_queue' = validation_queue
                  /\ queueInserts' = Append(queueInserts,
                       [serial_number |-> loc[p].serialNumber,
                        hardware_id |-> loc[p].hardwareId])
            /\ (pc[p] = "act_update" /\ pc'[p] # "act_update"
                  /\ loc[p].validationResult.temporary)
               => /\ result'.expires = loc[p].validationResult.expires
                  /\ transaction_counter'[CounterId].temporary_until =
                       loc[p].validationResult.expires]_vars
    /\ [][(\A p \in Procs : ~(/\ pc[p] = "act_offline"
                              /\ pc'[p] # "act_offline"
                              /\ ~FoundOffline(loc[p].serialNumber)))
          => /\ Len(validation_queue') + Len(queueInserts')
                  = Len(validation_queue) + Len(queueInserts)
             /\ QueuedPairs(validation_queue', queueInserts')
                  = QueuedPairs(validation_queue, queueInserts)]_vars

\* with the server unreachable, a serial whose shipped row has valid unset
\* has been granted a temporary activation
C16_Witness ==
    /\ result.op = "activate"
    /\ result.settled = "resolved"
    /\ result.did.validateAnswer.transport = "unreachable"
    /\ result.serialNumber = SN_PRELOADED
    /\ ~FoundOffline(result.serialNumber)
    /\ result.temporary
    /\ row.temporary_until = result.expires
    /\ result.did.queued = 1

\* C17: enqueue is an upsert keyed by serial number: validation_queue holds
\* at most one row per serial number, and every row has attempts = 0 and
\* status pending.
C17_QueueUpsertBySerial ==
    /\ \A i, j \in 1..Len(validation_queue) :
         validation_queue[i].serial_number = validation_queue[j].serial_number
         => i = j
    /\ \A i \in 1..Len(validation_queue) :
         /\ validation_queue[i].attempts = 0
         /\ validation_queue[i].status = "pending"

\* C18: when activateLicense(serial) resolves, transaction_counter holds
\* license_status activated, the serial, the fingerprint computed in that
\* call (the one sent to the server and returned to the caller), an
\* activation_date, and temporary_until = the grant's expiry for a temporary
\* grant and NULL otherwise, whatever was stored before.
C18_ActivationPersisted ==
    /\ []((result.op = "activate" /\ result.settled = "resolved")
          => /\ result.success
             /\ row.license_status = "activated"
             /\ row.serial_number = result.serialNumber
             /\ row.hardware_id = result.hardwareId
             /\ result.hardwareId # NullHw
             /\ result.did.fingerprints = 1
             /\ result.did.validatePayload.hardwareId = result.hardwareId
             /\ row.activation_date = now
             /\ row.activation_date # NullTime
             /\ row.temporary_until =
                  IF result.temporary THEN result.expires ELSE NullTime
             /\ result.temporary => result.expires # NullTime)
    /\ [][\A p \in Procs :
            /\ (pc[p] = "act_fingerprint" /\ pc'[p] # "act_fingerprint")
               => loc'[p].hardwareId \in
                    {generateHardwareFingerprint(gatherOk, now) : gatherOk \in BOOLEAN}
            /\ (pc[p] = "act_update" /\ pc'[p] # "act_update")
               => /\ result'.op = "activate"
                  /\ result'.settled = "resolved"
                  /\ result'.hardwareId = loc[p].hardwareId
                  /\ result'.serialNumber = loc[p].serialNumber]_vars

\* a non-temporary activation has resolved after an earlier temporary grant
\* (whose queue entry is still there) and has cleared the stored expiry
C18_Witness ==
    /\ result.op = "activate"
    /\ result.settled = "resolved"
    /\ ~result.temporary
    /\ result.did.queued = 0
    /\ Len(validation_queue) + Len(queueInserts) >= 1
    /\ row.temporary_until = NullTime
    /\ row.serial_number = result.serialNumber

\* C19: an activateLicense call writes transaction_counter at most once: the
\* record changes only in the step of the UPDATE, which is issued only once
\* validateOnline or validateOffline has returned a success and with which
\* the call resolves; no other step of a call changes the record, so a call
\* that rejects (format, checksum, refusal by the server, failed offline
\* lookup, failed UPDATE) has left it as it was.
C19_SingleWriteAfterValidation ==
    /\ [](/\ \A p \in Activating :
               /\ loc[p].storeWrites = 0
               /\ pc[p] = "act_update"
                  => /\ loc[p].validationResult.success
                     /\ loc[p].validationResult.source \in {"online", "offline"}
                     /\ loc[p].validateAnswer.transport # "none"
          /\ (result.op = "activate" /\ result.settled = "rejected")
             => result.did.storeWrites = 0
          /\ (result.op = "activate" /\ result.settled = "not_called")
             => result.did.storeWrites = 0
          /\ (result.op = "activate" /\ result.settled = "resolved")
             => result.did.storeWrites = 1)
    /\ [][transaction_counter' # transaction_counter
          => \E p \in Procs :
               /\ pc[p] = "act_update"
               /\ pc'[p] = "idle"
               /\ result'.op = "activate"
               /\ result'.proc = p
               /\ result'.settled = "resolved"]_vars
    /\ [][(result'.op = "activate" /\ result'.settled # "resolved")
          => transaction_counter' = transaction_counter]_vars

\* a call that timed out and then failed its offline lookup has rejected
\* and the activation stored by an earlier call is still there
C19_Witness ==
    /\ result.op = "activate"
    /\ result.settled = "rejected"
    /\ result.did.validateAnswer.transport = "timeout"
    /\ result.did.offlineLookups = 1
    /\ result.did.storeWrites = 0
    /\ row.license_status = "activated"
    /\ row.serial_number # result.serialNumber

\* C20: a call in which a local persistence operation fails (the SELECT on
\* preloaded_sns, the INSERT into validation_queue, the UPDATE) rejects and
\* leaves no partial state: a call rejected for a storage error has queued
\* nothing and written nothing, and a temporary grant is stored only
\* together with its validation_queue entry.
C20_StorageFailureLeavesNothing ==
    /\ (result.op = "activate" /\ result.settled = "rejected"
          /\ result.source = "storage")
       => /\ result.did.queued = 0
          /\ result.did.storeWrites = 0
    /\ row.temporary_until # NullTime
       => QueuedFor(validation_queue, queueInserts,
                    row.serial_number, row.hardware_id) >= 1

\* temporary_until is set and in the future
GraceRunning(r, t) == r.temporary_until # NullTime /\ r.temporary_until > t

(* ----------------- the serial format as a pure function ---------------- *)
\* characters a submitted serial may carry in place of the expected ones
EditChars == {"Z", "7", "x", "-", "_", " "}

\* the state holds the serial about to be tested
InitFormat ==
    /\ transaction_counter = [id \in {CounterId} |-> DefaultRow]
    /\ preloaded_sns = PreloadedRows
    /\ validation_queue = <<>>
    /\ queueInserts = <<>>
    /\ now = 0
    /\ sales = 0
    /\ pc = [p \in Procs |-> "idle"]
    /\ loc = [p \in Procs |-> NoLoc]
    /\ \E sn \in Serials :
         result = [op |-> "serial", serialNumber |-> sn, edits |-> 0]
    /\ startCount = 0
    /\ nSucc = 0
    /\ nFail = 0
    /\ nAct = 0

Edited(serialNumber) ==
    /\ result.op = "serial"
    /\ result.edits < MaxEdits
    /\ result' = [op |-> "serial", serialNumber |-> serialNumber,
                  edits |-> result.edits + 1]
    /\ UNCHANGED <<storeVars, now, sales, pc, loc, histVars>>

\* one character of the serial is another one
EditReplace ==
    /\ result.op = "serial"
    /\ \E i \in 1..Len(result.serialNumber), c \in EditChars :
         /\ result.serialNumber[i] # c
         /\ Edited([result.serialNumber EXCEPT ![i] = c])

\* the serial has one character more: in front, inside or at the end
EditInsert ==
    /\ result.op = "serial"
    /\ \E i \in 0..Len(result.serialNumber), c \in EditChars :
         Edited(SubSeq(result.serialNumber, 1, i) \o <<c>>
                  \o SubSeq(result.serialNumber, i + 1, Len(result.serialNumber)))

\* the serial has one character less
EditDelete ==
    /\ result.op = "serial"
    /\ \E i \in 1..Len(result.serialNumber) :
         Edited(SubSeq(result.serialNumber, 1, i - 1)
                  \o SubSeq(result.serialNumber, i + 1, Len(result.serialNumber)))

\* isValidSNFormat(serialNumber)
TestFormat ==
    /\ result.op = "serial"
    /\ result' = [op |-> "format", serialNumber |-> result.serialNumber,
                  edits |-> result.edits,
                  valid |-> isValidSNFormat(result.serialNumber)]
    /\ UNCHANGED <<storeVars, now, sales, pc, loc, histVars>>

NextFormat == EditReplace \/ EditInsert \/ EditDelete \/ TestFormat

SpecFormat == InitFormat /\ [][NextFormat]_vars

(* ------------------- the checksum as a pure function ------------------- *)
\* what a caller may pass for serialNumber: a string, or a value without a
\* split method
ValueTypes == {"string", "number", "null", "undefined", "object"}

\* characters a submitted serial may carry in its checksum segment
CrcChars == {"0", "4", "5", "8", "D", "F", "Z", "d", "f"}

\* the state holds the value about to be tested
InitCRC ==
    /\ transaction_counter = [id \in {CounterId} |-> DefaultRow]
    /\ preloaded_sns = PreloadedRows
    /\ validation_queue = <<>>
    /\ queueInserts = <<>>
    /\ now = 0
    /\ sales = 0
    /\ pc = [p \in Procs |-> "idle"]
    /\ loc = [p \in Procs |-> NoLoc]
    /\ \/ \E sn \in Serials :
            result = [op |-> "value", type |-> "string", serialNumber |-> sn,
                      edits |-> 0]
       \/ \E t \in ValueTypes \ {"string"} :
            result = [op |-> "value", type |-> t, serialNumber |-> <<>>,
                      edits |-> 0]
    /\ startCount = 0
    /\ nSucc = 0
    /\ nFail = 0
    /\ nAct = 0

\* one of the last four characters of the string is another one (the
\* digest is tabulated for the first three segments of Serials, which
\* these edits keep)
EditChecksum ==
    /\ result.op = "value"
    /\ result.type = "string"
    /\ result.edits < MaxEdits
    /\ Len(result.serialNumber) >= 4
    /\ \E i \in (Len(result.serialNumber) - 3)..Len(result.serialNumber),
          c \in CrcChars :
         /\ result.serialNumber[i] # c
         /\ result' = [result EXCEPT !.serialNumber[i] = c,
                                     !.edits = @ + 1]
    /\ UNCHANGED <<storeVars, now, sales, pc, loc, histVars>>

\* a submitted serial has one hyphen more or one hyphen less
EditSeparator ==
    /\ result.op = "value"
    /\ result.type = "string"
    /\ result.edits = 0
    /\ \E i \in 0..Len(result.serialNumber) :
         LET s == result.serialNumber
             more == SubSeq(s, 1, i) \o <<"-">> \o SubSeq(s, i + 1, Len(s))
             less == SubSeq(s, 1, i - 1) \o SubSeq(s, i + 1, Len(s))
         IN \/ result' = [result EXCEPT !.serialNumber = more, !.edits = 1]
            \/ /\ i >= 1
               /\ s[i] = "-"
               /\ result' = [result EXCEPT !.serialNumber = less, !.edits = 1]
    /\ UNCHANGED <<storeVars, now, sales, pc, loc, histVars>>

\* isValidCRC(serialNumber): serialNumber.split of a value that is not a
\* string throws a TypeError inside the try block, and the catch returns
\* false
TestCRC ==
    /\ result.op = "value"
    /\ result' = [op |-> "crc", type |-> result.type,
                  serialNumber |-> result.serialNumber,
                  edits |-> result.edits,
                  settled |-> "returned",
                  caught |-> (result.type # "string"),
                  valid |-> IF result.type # "string" THEN FALSE
                            ELSE isValidCRC(result.serialNumber)]
    /\ UNCHANGED <<storeVars, now, sales, pc, loc, histVars>>

NextCRC == EditChecksum \/ EditSeparator \/ TestCRC

SpecCRC == InitCRC /\ [][NextCRC]_vars

\* C21: getActivationStatus answers status "activated" whenever the stored
\* license_status is activated (also while temporary_until is in the
\* future), "temporary" when it is not activated and temporary_until is set
\* and in the future, and "trial" otherwise.
C21_StatusActivatedFirst ==
    result.op = "status"
    => result.status = IF row.license_status = "activated" THEN "activated"
                       ELSE IF GraceRunning(row, now) THEN "temporary"
                       ELSE "trial"

\* C22: getActivationStatus answers remaining 'unlimited' exactly when the
\* store is activated or holds a temporary_until in the future, and
\* max(0, 99 - total_transactions), which is not negative, otherwise; the
\* call leaves the store unchanged.
C22_StatusRemaining ==
    /\ [](result.op = "status"
          => /\ result.totalTransactions = row.total_transactions
             /\ (result.remaining = Unlimited)
                  <=> (row.license_status = "activated" \/ GraceRunning(row, now))
             /\ result.remaining # Unlimited
                => /\ result.remaining = Max(0, 99 - row.total_transactions)
                   /\ result.remaining >= 0)
    /\ [][result'.op = "status" => UNCHANGED storeVars]_vars

\* an exhausted trial has been reported with remaining 0
C22_Witness ==
    /\ result.op = "status"
    /\ row.license_status = "trial"
    /\ row.total_transactions = 99
    /\ result.remaining = 0

\* C23: whatever the store holds, the UPDATE of resetTrialCounter leaves it
\* with license_status trial, total_transactions 0 and serial_number,
\* hardware_id, activation_date and temporary_until NULL; of the sequential
\* increments that follow, the first 99 resolve (the k-th with total k) and
\* the 100th rejects with the count at 99.
C23_ResetRestoresTrial ==
    /\ [][result'.op = "reset"
          => /\ transaction_counter'[CounterId].license_status = "trial"
             /\ transaction_counter'[CounterId].total_transactions = 0
             /\ transaction_counter'[CounterId].serial_number = NullSerial
             /\ transaction_counter'[CounterId].hardware_id = NullHw
             /\ transaction_counter'[CounterId].activation_date = NullTime
             /\ transaction_counter'[CounterId].temporary_until = NullTime]_vars
    /\ []((result.op = "increment" /\ row.license_status = "trial")
          => IF startCount + nSucc + nFail <= 99
             THEN /\ result.settled = "resolved"
                  /\ nFail = 0
                  /\ result.total = startCount + nSucc
                  /\ result.remaining = 99 - result.total
                  /\ row.total_transactions = result.total
             ELSE /\ result.settled = "rejected"
                  /\ result.message = "TRIAL_LIMIT_REACHED"
                  /\ row.total_transactions = 99)

\* after the reset of an activated store (its last_validation is still
\* there), 99 increments have resolved and the 100th has been rejected
C23_Witness ==
    /\ result.op = "increment"
    /\ result.settled = "rejected"
    /\ row.license_status = "trial"
    /\ row.last_validation # NullTime
    /\ startCount = 0
    /\ nSucc = 99
    /\ nFail = 1

\* C24: after resetTrialCounter has resolved, the transaction_counter record
\* equals the record of a fresh installation in every field, last_validation
\* included.
C24_ResetEqualsFresh ==
    result.op = "reset" => row = DefaultRow

\* C25: transaction_counter holds exactly one record, the one with id 1, in
\* every reachable state: initDB, incrementTransaction, activateLicense,
\* resetTrialCounter and getActivationStatus neither add nor delete a
\* record, and what they read and answer is that record.
C25_SingleCounterRecord ==
    /\ [](/\ DOMAIN transaction_counter = {CounterId}
          /\ Cardinality(DOMAIN transaction_counter) = 1
          /\ result.op = "status"
             => /\ result.totalTransactions = row.total_transactions
                /\ result.serialNumber = row.serial_number
          /\ (result.op = "increment" /\ result.settled = "resolved")
             => result.total = row.total_transactions
          /\ (result.op = "activate" /\ result.settled = "resolved")
             => row.serial_number = result.serialNumber)
    /\ [][DOMAIN transaction_counter' = DOMAIN transaction_counter]_vars

\* initDB has run again on a store that was activated and counted
C25_Witness ==
    /\ result.op = "initDB"
    /\ DOMAIN transaction_counter = {CounterId}
    /\ row.license_status = "activated"
    /\ row.total_transactions > 0

\* C26: initDB on an initialised store leaves the transaction_counter
\* record, validation_queue and the rows of preloaded_sns as they are: a
\* restart resets neither the count nor the licence status.
C26_InitIdempotent ==
    [][result'.op = "initDB"
       => /\ transaction_counter' = transaction_counter
          /\ validation_queue' = validation_queue
          /\ preloaded_sns' = preloaded_sns]_vars

\* initDB has run again on a store with a count, a temporary grant, a
\* queue entry and a shipped preloaded row
C26_Witness ==
    /\ result.op = "initDB"
    /\ row.total_transactions > 0
    /\ row.license_status = "activated"
    /\ row.temporary_until # NullTime
    /\ Len(validation_queue) > 0
    /\ preloaded_sns[SN_PRELOADED].license_type = "pro"

\* the request in flight has been given up by its timeout
TimedOut(l) ==
    \/ l.validateAnswer.transport = "timeout"
    \/ l.activateAnswer.transport = "timeout"

C28_ProbeBounded ==
    \A p \in Procs :
      (pc[p] \in {"act_fingerprint", "act_fingerprint_hung"})
        ~> (pc[p] \notin {"act_fingerprint", "act_fingerprint_hung"})

\* C29: generateHardwareFingerprint is deterministic on an unchanged
\* machine: a call that computes its fingerprint the way the stored
\* activation did (hardware gathering works in both, or fails in both) gets
\* the hardware id the store is bound to.
C29_FingerprintDeterministic ==
    \A p \in Activating :
      (/\ loc[p].hardwareId # NullHw
       /\ row.hardware_id # NullHw
       /\ loc[p].hardwareId.kind = row.hardware_id.kind)
      => loc[p].hardwareId = row.hardware_id

\* the shape PREFIX-YYYY-XXXXXX-CCCC, read off the hyphen-separated parts
HasShape(serialNumber) ==
    LET parts == Split(serialNumber) IN
    /\ Len(parts) = 4
    /\ parts[1] = <<"D","M","P","O","S">>
    /\ Len(parts[2]) = 4
    /\ \A i \in 1..Len(parts[2]) : parts[2][i] \in Digits
    /\ Len(parts[3]) = 6
    /\ \A i \in 1..Len(parts[3]) : parts[3][i] \in UpperLetters \cup Digits
    /\ Len(parts[4]) = 4
    /\ \A i \in 1..Len(parts[4]) : parts[4][i] \in UpperLetters \cup Digits

\* C30: isValidSNFormat returns false for every serial that deviates from
\* the shape PREFIX-YYYY-XXXXXX-CCCC: a wrong segment length, a lowercase
\* character, a wrong number of separators or an extra character in front
\* or at the end.
C30_FormatRejectsDeviations ==
    (result.op = "format" /\ ~HasShape(result.serialNumber))
      => result.valid = FALSE

\* a well-formed serial with one extra character at its end was rejected
C30_Witness ==
    /\ result.op = "format"
    /\ result.edits >= 1
    /\ Len(result.serialNumber) = 23
    /\ HasShape(SubSeq(result.serialNumber, 1, 22))
    /\ ~HasShape(result.serialNumber)
    /\ result.valid = FALSE

\* the first 4 uppercase hex characters of the digest of the first three
\* segments and their hyphens, for a serial of valid format
ExpectedChecksum(serialNumber) ==
    LET digest == Md5Hex(SubSeq(serialNumber, 1, 18))
    IN [i \in 1..4 |-> UpperOf(digest[i])]

HyphenCount(serialNumber) ==
    Cardinality({i \in 1..Len(serialNumber) : serialNumber[i] = "-"})

\* C31: for a serial of valid format isValidCRC returns true exactly when
\* the fourth segment is the first 4 uppercase hex characters of the digest
\* of the first three segments joined by hyphens plus a trailing hyphen;
\* for a string without exactly four segments and for a value that is not a
\* string it returns false, and it never raises.
C31_ChecksumContract ==
    result.op = "crc" =>
      /\ result.settled = "returned"
      /\ (result.type = "string" /\ isValidSNFormat(result.serialNumber))
           => (result.valid <=>
                 SubSeq(result.serialNumber, 19, 22)
                   = ExpectedChecksum(result.serialNumber))
      /\ (result.type # "string" \/ HyphenCount(result.serialNumber) # 3)
           => result.valid = FALSE

\* a serial of valid format whose fourth segment is the digest prefix, a
\* letter among its characters, has been accepted
C31_Witness ==
    /\ result.op = "crc"
    /\ result.type = "string"
    /\ isValidSNFormat(result.serialNumber)
    /\ \E i \in 19..22 : result.serialNumber[i] \in UpperLetters
    /\ result.valid = TRUE

ErrorKinds ==
    {"INVALID_FORMAT", "INVALID_CHECKSUM", "SN_NOT_FOUND",
     "MAX_INSTALLATIONS_REACHED", "ACTIVATION_FAILED"}

\* C32: every rejected request to the activate endpoint carries one error
\* kind out of INVALID_FORMAT, INVALID_CHECKSUM, SN_NOT_FOUND,
\* MAX_INSTALLATIONS_REACHED and ACTIVATION_FAILED, and a refusal of the
\* server for a serial it does not know carries SN_NOT_FOUND.
C32_ErrorKinds ==
    (result.op = "activate" /\ ~result.success)
      => /\ result.error \in ErrorKinds
         /\ (/\ result.settled = "rejected"
             /\ Parsed(result.did.validateAnswer)
             /\ ~result.did.validateAnswer.valid
             /\ result.did.validateAnswer.reason \in {"SN_NOT_FOUND", "null"})
            => result.error = "SN_NOT_FOUND"

\* C33: the validation queue is write-only: no step of incrementTransaction,
\* activateLicense, getActivationStatus, resetTrialCounter or initDB removes
\* an entry or changes one (its attempts and status included), so every
\* step leaves the entries written so far in place and may only add one.
C33_QueueWriteOnly ==
    [][/\ Len(validation_queue') >= Len(validation_queue)
       /\ SubSeq(validation_queue', 1, Len(validation_queue)) = validation_queue]_vars

\* a reset has run on a store with a queued entry, and the entry is there
C33_Witness ==
    /\ result.op = "reset"
    /\ Len(validation_queue) >= 1
    /\ validation_queue[1].attempts = 0
    /\ validation_queue[1].status = "pending"
    /\ row.license_status = "trial"

\* C34: a completed reset is not undone by an increment in flight: when
\* resetTrialCounter has run between the read and the write of a trial-mode
\* incrementTransaction, the stored count after that write is at most 1.
C34_ResetNotUndone ==
    [][\A p \in Procs :
         (/\ pc[p] = "inc_run_trial"
          /\ result.op = "reset"
          /\ pc'[p] = "idle")
         => row'.total_transactions <= 1]_vars

\* C35: in every reachable state whose licence status is trial the stored
\* count is between 0 and the trial limit, for any interleaving of
\* increments and resets, an increment that read 'activated' before a reset
\* and writes after it included.
C35_TrialCountBounded ==
    row.license_status = "trial"
      => row.total_transactions \in 0..maxTrialTransactions

\* C36: the fields of the counter row are coherent in every reachable state:
\* a trial row has no serial number, hardware id, activation date or expiry,
\* an activated row has a serial number, a hardware id and an activation
\* date; so getActivationStatus never reports status "temporary" together
\* with activated = false.
C36_FieldCoherence ==
    /\ row.license_status \in {"trial", "activated"}
    /\ row.license_status = "trial"
         => /\ row.serial_number = NullSerial
            /\ row.hardware_id = NullHw
            /\ row.activation_date = NullTime
            /\ row.temporary_until = NullTime
    /\ row.license_status = "activated"
         => /\ row.serial_number # NullSerial
            /\ row.hardware_id # NullHw
            /\ row.activation_date # NullTime
    /\ (result.op = "status" /\ result.status = "temporary") => result.activated

\* the status of a store reset after a temporary activation has been read:
\* it is trial, not temporary
C36_Witness ==
    /\ result.op = "status"
    /\ result.status = "trial"
    /\ ~result.activated
    /\ ~result.temporary
    /\ Len(validation_queue) >= 1

\* the grace period of the stored temporary activation has run out
GraceOver(r, t) == r.temporary_until # NullTime /\ r.temporary_until <= t

\* C37: the end of a grace period revokes nothing: a stored temporary
\* activation stays activated, an increment that reads it after its expiry
\* goes the activated way and resolves with remaining unlimited, and the
\* only step from activated back to trial is resetTrialCounter.
C37_ExpiryRevokesNothing ==
    /\ [][(row.license_status = "activated" /\ row'.license_status # "activated")
           => (result'.op = "reset" /\ row'.license_status = "trial")]_vars
    /\ [][\A p \in Procs :
            (/\ pc[p] = "inc_get"
             /\ pc'[p] # "inc_get"
             /\ row.license_status = "activated")
            => /\ pc'[p] = "inc_run_activated"
               /\ UNCHANGED transaction_counter]_vars
    /\ [][\A p \in Procs :
            (pc[p] = "inc_run_activated" /\ pc'[p] = "idle")
            => /\ result'.op = "increment"
               /\ result'.settled = "resolved"
               /\ result'.success
               /\ result'.remaining = Unlimited
               /\ row'.license_status = row.license_status
               /\ row'.total_transactions = row.total_transactions + 1]_vars

\* an increment has resolved with remaining unlimited on a store whose
\* grace period is over
C37_Witness ==
    /\ result.op = "increment"
    /\ result.settled = "resolved"
    /\ result.remaining = Unlimited
    /\ row.license_status = "activated"
    /\ GraceOver(row, now)

\* C38: every successful activateLicense overwrites the serial number, the
\* hardware id, the activation date, the last validation and the expiry,
\* whatever the store held: after an offline grant for an unrecognised
\* serial a store with a permanent activation holds a temporary one, with
\* the new serial and an expiry of 30 days.
C38_ActivationOverwrites ==
    [][\A p \in Activating :
         (/\ pc'[p] = "idle"
          /\ result'.op = "activate"
          /\ result'.success)
         => /\ pc[p] = "act_update"
            /\ row' = [row EXCEPT
                         !.license_status = "activated",
                         !.serial_number = result'.serialNumber,
                         !.hardware_id = result'.hardwareId,
                         !.activation_date = now,
                         !.last_validation = now,
                         !.temporary_until =
                            IF result'.temporary THEN result'.expires ELSE NullTime]
            /\ result'.serialNumber = loc[p].serialNumber
            /\ result'.temporary
                 => /\ result'.source = "offline"
                    /\ result'.expires \in GraceTicks..(now + GraceTicks)]_vars

\* the store, permanently activated with the first test serial at start-up,
\* holds a temporary activation with the unrecognised serial
C38_Witness ==
    /\ result.op = "activate"
    /\ result.success
    /\ result.temporary
    /\ row.license_status = "activated"
    /\ row.serial_number = SN_UNKNOWN
    /\ row.serial_number # ActivatedRow(0).serial_number
    /\ row.temporary_until = result.expires
    /\ row.temporary_until # NullTime

\* C39: incrementTransaction changes no field of the counter row other than
\* total_transactions, changes that one by exactly +1 when the call
\* succeeds and not at all when it fails, and writes neither to the
\* validation queue nor to the preloaded serials.
C39_IncrementFrame ==
    [][\A p \in Procs :
         (pc[p] \in {"inc_get", "inc_run_activated", "inc_run_trial"} /\ pc'[p] # pc[p])
         => /\ row' = [row EXCEPT !.total_transactions = row'.total_transactions]
            /\ UNCHANGED <<preloaded_sns, validation_queue, queueInserts>>
            /\ row'.total_transactions =
                 IF pc'[p] = "idle" /\ result'.success
                 THEN row.total_transactions + 1
                 ELSE row.total_transactions]_vars

\* C40: whenever activateLicense has resolved with temporary = true, the
\* validation queue holds a pending entry for that serial and hardware id:
\* no temporary grant is reported without its queue entry.
C40_GrantHasQueueEntry ==
    (/\ result.op = "activate"
     /\ result.success
     /\ result.temporary)
    => \E i \in 1..Len(validation_queue) :
         /\ validation_queue[i].serial_number = result.serialNumber
         /\ validation_queue[i].hardware_id = result.hardwareId
         /\ validation_queue[i].status = "pending"

====
